---- MODULE Spec2Model ----
(***************************************************************************)
(* A state-machine model of the staking pallet, frame/staking/src/lib.rs:  *)
(* the bonding ledger, the session -> era engine, the election window, the *)
(* deferred-slash queue and the dispatch surface.                          *)
(*                                                                         *)
(* Storage items keep the names of decl_storage!.  Option<T> values are    *)
(* sequences: <<>> is None and <<x>> is Some(x).  Storage maps are         *)
(* functions whose DOMAIN is the set of keys that hold a value.            *)
(***************************************************************************)
EXTENDS Integers, Sequences, FiniteSets, TLC

\* ------------------------------------------------------------------ bounds

\* Largest currency amount an account or a ledger may reach in the model.
MaxBalance == 4
\* Last session the session module starts in the runs of the slashes.
MaxSession == 5
\* Last session the session module starts in the runs of the ledger calls.
LedgerSessions == 3
\* Number of offences the offence handler reports in one run.
MaxOffences == 2
\* Longest index list passed to cancel_deferred_slash.
MaxIndices == 2
\* MAX_UNLOCKING_CHUNKS (32 in the source, lib.rs:303) scaled down so that
\* the NoMoreChunks limit is reached inside MaxBalance.
MAX_UNLOCKING_CHUNKS == 2
\* Largest history depth governance sets.
MaxHistoryDepth == 2
\* Last session the session module starts in the runs of the era engine.
EraSessions == 3
\* Last session the session module starts in the runs of the election window.
GateSessions == 2

\* ------------------------------------------------- configuration (Trait)

\* T::Currency::minimum_balance(), the existential deposit.
minimum_balance == 2
\* T::SessionsPerEra of the runtimes whose eras have more than one session
TwoSessionsPerEra == 2
\* T::BondingDuration
BondingDuration == 1
\* T::SlashDeferDuration
SlashDeferDuration == 1

Accounts == {1, 2, 3}
Payees == {"Staked", "Stash", "Controller"}
Balances == 0..MaxBalance
\* Slash fractions an offence carries, in percent (Perbill::from_percent).
Fractions == {0, 50, 100}

None == <<>>
Some(x) == <<x>>
IsSome(o) == o # <<>>
Unwrap(o) == o[1]
UnwrapOr(o, d) == IF o = <<>> THEN d ELSE o[1]

Min(a, b) == IF a <= b THEN a ELSE b
Max(a, b) == IF a >= b THEN a ELSE b
\* Saturating subtraction of unsigned integers.
SatSub(a, b) == IF a >= b THEN a - b ELSE 0

Insert(m, k, v) == [x \in (DOMAIN m) \cup {k} |-> IF x = k THEN v ELSE m[x]]
Remove(m, k) == [x \in (DOMAIN m) \ {k} |-> m[x]]
EmptyMap == [x \in {} |-> 0]

RECURSIVE SumValues(_)
SumValues(chunks) ==
    IF chunks = <<>> THEN 0 ELSE Head(chunks).value + SumValues(Tail(chunks))

\* ------------------------------------------------------------------- state

VARIABLES
    \* configuration storage
    HistoryDepth, ValidatorCount, MinimumValidatorCount, ForceEra,
    \* T::SessionsPerEra and T::ElectionLookahead, constants of the runtime
    SessionsPerEra, ElectionLookahead,
    \* stakers
    Bonded, Ledger, Payee, Validators, Nominators,
    \* the currency: free balance and the staking lock of every account
    free_balance, locks,
    \* eras
    CurrentEra, ActiveEra, ErasStartSessionIndex, BondedEras,
    IsCurrentSessionFinal,
    \* per-era information
    ErasStakers, ErasStakersClipped, ErasValidatorPrefs, ErasValidatorReward,
    ErasRewardPoints, ErasTotalStake,
    \* election window
    SnapshotValidators, SnapshotNominators, QueuedElected, QueuedScore,
    EraElectionStatus,
    \* deferred slashes
    UnappliedSlashes, EarliestUnappliedSlash,
    \* the session module: the next session index it plans and the call of
    \* the session manager it makes next ("new", "start0", "end", "start")
    session_index, phase,
    \* observation: the last operation that ran to completion, the slashes
    \* handed to slashing::apply_slash (slash id -> active era of each
    \* application), the slashes cancelled, the offences reported so far and
    \* the payouts made ((stash, era) -> number of successful payouts)
    last_call, applied, cancelled, offences, paid

configVars == <<HistoryDepth, ValidatorCount, MinimumValidatorCount, ForceEra,
                SessionsPerEra, ElectionLookahead>>
stakerVars == <<Bonded, Ledger, Payee, Validators, Nominators>>
currencyVars == <<free_balance, locks>>
eraVars == <<CurrentEra, ActiveEra, ErasStartSessionIndex, BondedEras,
             IsCurrentSessionFinal>>
eraInfoVars == <<ErasStakers, ErasStakersClipped, ErasValidatorPrefs,
                 ErasValidatorReward, ErasRewardPoints, ErasTotalStake>>
electionVars == <<SnapshotValidators, SnapshotNominators, QueuedElected,
                  QueuedScore, EraElectionStatus>>
slashVars == <<UnappliedSlashes, EarliestUnappliedSlash, applied, cancelled,
               offences, paid>>
driverVars == <<session_index, phase>>

vars == <<configVars, stakerVars, currencyVars, eraVars, eraInfoVars,
          electionVars, slashVars, driverVars, last_call>>

\* Everything but the record of the last call.
staking_state == <<configVars, stakerVars, currencyVars, eraVars, eraInfoVars,
                   electionVars, slashVars, driverVars>>

\* ---------------------------------------------------------- StakingLedger

\* consolidate_unlocked that releases a chunk one era before its unlock era.
KeepLocked_one_era_early(chunks, current_era) ==
    SelectSeq(chunks, LAMBDA chunk : chunk.era > current_era + 1)

\* StakingLedger::consolidate_unlocked
RECURSIVE KeepLocked(_, _)
KeepLocked(chunks, current_era) ==
    IF chunks = <<>> THEN <<>>
    ELSE IF Head(chunks).era > current_era
         THEN <<Head(chunks)>> \o KeepLocked(Tail(chunks), current_era)
         ELSE KeepLocked(Tail(chunks), current_era)

consolidate_unlocked(l, current_era) ==
    LET unlocking == KeepLocked(l.unlocking, current_era)
        total == SatSub(l.total, SumValues(l.unlocking) - SumValues(unlocking))
    IN  [l EXCEPT !.total = total, !.unlocking = unlocking]

\* The loop of rebond that stops after the newest chunk.
rebond_loop_one_chunk(l, value, moved) ==
    IF l.unlocking = <<>> THEN l
    ELSE LET n == Len(l.unlocking)
             last == l.unlocking[n]
         IN  IF moved + last.value <= value
             THEN [l EXCEPT !.active = l.active + last.value,
                            !.unlocking = SubSeq(l.unlocking, 1, n - 1)]
             ELSE [l EXCEPT !.active = l.active + (value - moved),
                            !.unlocking[n].value = last.value - (value - moved)]

\* StakingLedger::rebond: the while loop, `moved` being unlocking_balance.
RECURSIVE rebond_loop(_, _, _)
rebond_loop(l, value, moved) ==
    IF l.unlocking = <<>> THEN l
    ELSE
        LET n == Len(l.unlocking)
            last == l.unlocking[n]
        IN  IF moved + last.value <= value
            THEN LET l2 == [l EXCEPT !.active = l.active + last.value,
                                     !.unlocking = SubSeq(l.unlocking, 1, n - 1)]
                     moved2 == moved + last.value
                 IN  IF moved2 >= value THEN l2
                     ELSE rebond_loop(l2, value, moved2)
            ELSE LET diff == value - moved
                 IN  \* unlocking_balance + diff = value, so the loop breaks
                     [l EXCEPT !.active = l.active + diff,
                               !.unlocking[n].value = last.value - diff]

\* rebond that takes the value from the oldest chunk instead of the last.
ledger_rebond_oldest_first(l, value) ==
    IF l.unlocking = <<>> THEN l
    ELSE IF Head(l.unlocking).value <= value
         THEN [l EXCEPT !.active = l.active + Head(l.unlocking).value,
                        !.unlocking = Tail(l.unlocking)]
         ELSE [l EXCEPT !.active = l.active + value,
                        !.unlocking[1].value = Head(l.unlocking).value - value]

ledger_rebond(l, value) == rebond_loop(l, value, 0)

\* The closure slash_out_of of StakingLedger::slash: the new
\* (total_remaining, target, value).
slash_out_of(total_remaining, target, value, min_balance) ==
    LET slash_from_target == Min(value, target)
    IN  IF slash_from_target = 0
        THEN [total |-> total_remaining, target |-> target, value |-> value]
        ELSE
            LET t1 == target - slash_from_target
                dust == t1 <= min_balance
                sft == IF dust THEN slash_from_target + t1 ELSE slash_from_target
                v1 == IF dust THEN value + t1 ELSE value
            IN  [total |-> SatSub(total_remaining, sft),
                 target |-> IF dust THEN 0 ELSE t1,
                 value |-> v1 - sft]

\* The lazy iterator over the unlocking chunks: each chunk is slashed in
\* turn until the first one that is not fully consumed; `i` counts the
\* drained chunks.
RECURSIVE slash_chunks(_, _, _, _, _)
slash_chunks(chunks, i, total, value, min_balance) ==
    IF i > Len(chunks)
    THEN [chunks |-> chunks, drained |-> Len(chunks), total |-> total]
    ELSE
        LET r == slash_out_of(total, chunks[i].value, value, min_balance)
            chunks2 == [chunks EXCEPT ![i].value = r.target]
        IN  IF r.target = 0
            THEN slash_chunks(chunks2, i + 1, r.total, r.value, min_balance)
            ELSE [chunks |-> chunks2, drained |-> i - 1, total |-> r.total]

\* StakingLedger::slash without the drain of the consumed chunks.
ledger_slash_keeps_drained(l, value, min_balance) ==
    LET a == slash_out_of(l.total, l.active, value, min_balance)
        c == slash_chunks(l.unlocking, 1, a.total, a.value, min_balance)
    IN  [ledger |-> [l EXCEPT !.total = c.total, !.active = a.target,
                              !.unlocking = c.chunks],
         slashed |-> SatSub(l.total, c.total)]

\* StakingLedger::slash: the ledger after the slash and the amount slashed.
ledger_slash(l, value, min_balance) ==
    LET a == slash_out_of(l.total, l.active, value, min_balance)
        c == slash_chunks(l.unlocking, 1, a.total, a.value, min_balance)
        kept == SubSeq(c.chunks, c.drained + 1, Len(c.chunks))
    IN  [ledger |-> [l EXCEPT !.total = c.total, !.active = a.target,
                              !.unlocking = kept],
         slashed |-> SatSub(l.total, c.total)]

\* ------------------------------------------------------- storage getters

\* EraElectionStatus is "Closed" or "Open"; the block number carried by
\* ElectionStatus::Open is read by the offchain worker only.
is_open == EraElectionStatus = "Open"
is_closed == EraElectionStatus = "Closed"

\* Payee is a map with the default value RewardDestination::Staked.
payee(stash) == IF stash \in DOMAIN Payee THEN Payee[stash] ELSE "Staked"

\* Module::slashable_balance_of
slashable_balance_of(stash) ==
    IF stash \in DOMAIN Bonded /\ Bonded[stash] \in DOMAIN Ledger
    THEN Ledger[Bonded[stash]].active ELSE 0

\* T::Currency::total_balance: free balance, nothing being reserved.
total_balance(who) == free_balance[who]

\* LockStakingStatus::validate: the calls that pass while the window is open.
AllowedWhileOpen ==
    {"set_payee", "set_controller", "set_validator_count", "force_no_eras",
     "force_new_era", "set_invulnerables", "force_unstake",
     "force_new_era_always", "cancel_deferred_slash", "set_history_depth",
     "reap_stash", "submit_election_solution",
     "submit_election_solution_unsigned"}

\* The transaction validity of a staking call: "Stale" or "Valid".
LockStakingStatus(call) ==
    IF is_open /\ call \notin AllowedWhileOpen THEN "Stale" ELSE "Valid"

\* Module::update_ledger: the lock and the ledger map after the write.
set_lock(lk, stash, amount) == [lk EXCEPT ![stash] = Some(amount)]
remove_lock(lk, stash) == [lk EXCEPT ![stash] = None]

\* update_ledger that leaves the lock as it is.
update_ledger_keeps_lock(controller, l) ==
    /\ UNCHANGED locks
    /\ Ledger' = Insert(Ledger, controller, l)

update_ledger(controller, l) ==
    /\ locks' = set_lock(locks, l.stash, l.total)
    /\ Ledger' = Insert(Ledger, controller, l)

\* Module::chill_stash
chill_stash(stash) ==
    /\ Validators' = Remove(Validators, stash)
    /\ Nominators' = Remove(Nominators, stash)

\* kill_stash that leaves the nomination of the stash behind.
kill_stash_keeps_nomination(stash) ==
    /\ Bonded' = Remove(Bonded, stash)
    /\ Ledger' = Remove(Ledger, Bonded[stash])
    /\ Payee' = Remove(Payee, stash)
    /\ Validators' = Remove(Validators, stash)
    /\ UNCHANGED Nominators

\* Module::kill_stash, after Bonded::take returned a controller.
kill_stash(stash) ==
    /\ Bonded' = Remove(Bonded, stash)
    /\ Ledger' = Remove(Ledger, Bonded[stash])
    /\ Payee' = Remove(Payee, stash)
    /\ chill_stash(stash)

kill_stash_result(stash) == IF stash \in DOMAIN Bonded THEN "Ok" ELSE "NotStash"

\* ------------------------------------------------------ dispatch: ledger

bond_result(stash, controller, value) ==
    IF stash \in DOMAIN Bonded THEN "AlreadyBonded"
    ELSE IF controller \in DOMAIN Ledger THEN "AlreadyPaired"
    ELSE IF value < minimum_balance THEN "InsufficientValue"
    ELSE "Ok"

bond(stash, controller, value, dest) ==
    /\ LockStakingStatus("bond") = "Valid"
    /\ bond_result(stash, controller, value) = "Ok"
    /\ Bonded' = Insert(Bonded, stash, controller)
    /\ Payee' = Insert(Payee, stash, dest)
    /\ LET stash_balance == free_balance[stash]
           v == Min(value, stash_balance)
           item == [stash |-> stash, total |-> v, active |-> v,
                    unlocking |-> <<>>, last_reward |-> CurrentEra]
       IN  update_ledger(controller, item)
    /\ last_call' = <<"bond", "Ok">>
    /\ UNCHANGED <<Validators, Nominators, free_balance>>
    /\ UNCHANGED <<configVars, eraVars, eraInfoVars, electionVars, slashVars,
                   driverVars>>

bond_extra_result(stash) ==
    IF stash \notin DOMAIN Bonded THEN "NotStash"
    ELSE IF Bonded[stash] \notin DOMAIN Ledger THEN "NotController"
    ELSE "Ok"

bond_extra(stash, max_additional) ==
    /\ LockStakingStatus("bond_extra") = "Valid"
    /\ bond_extra_result(stash) = "Ok"
    /\ LET controller == Bonded[stash]
           ledger == Ledger[controller]
           stash_balance == free_balance[stash]
       IN  IF stash_balance >= ledger.total
           THEN LET extra == Min(stash_balance - ledger.total, max_additional)
                IN  update_ledger(controller,
                        [ledger EXCEPT !.total = ledger.total + extra,
                                       !.active = ledger.active + extra])
           ELSE UNCHANGED <<Ledger, locks>>
    /\ last_call' = <<"bond_extra", "Ok">>
    /\ UNCHANGED <<Bonded, Payee, Validators, Nominators, free_balance>>
    /\ UNCHANGED <<configVars, eraVars, eraInfoVars, electionVars, slashVars,
                   driverVars>>

\* unbond that pushes the chunk and leaves `active` as it was.
unbond_ledger_keeps_active(ledger, value, current_era) ==
    LET v == Min(value, ledger.active)
    IN  IF v = 0 THEN ledger
        ELSE [ledger EXCEPT !.unlocking =
                Append(ledger.unlocking,
                       [value |-> v,
                        era |-> UnwrapOr(current_era, 0) + BondingDuration])]

\* The body of unbond on the ledger: the ledger it writes (the ledger itself
\* when the value to unbond is zero).
unbond_ledger(ledger, value, current_era) ==
    LET v == Min(value, ledger.active)
    IN  IF v = 0 THEN ledger
        ELSE
            LET rest == ledger.active - v
                dust == rest < minimum_balance
                chunk == [value |-> IF dust THEN v + rest ELSE v,
                          era |-> UnwrapOr(current_era, 0) + BondingDuration]
            IN  [ledger EXCEPT !.active = IF dust THEN 0 ELSE rest,
                               !.unlocking = Append(ledger.unlocking, chunk)]

unbond_result(controller) ==
    IF controller \notin DOMAIN Ledger THEN "NotController"
    ELSE IF ~(Len(Ledger[controller].unlocking) < MAX_UNLOCKING_CHUNKS)
         THEN "NoMoreChunks"
    ELSE "Ok"

unbond(controller, value) ==
    /\ LockStakingStatus("unbond") = "Valid"
    /\ unbond_result(controller) = "Ok"
    /\ IF Min(value, Ledger[controller].active) # 0
       THEN update_ledger(controller,
                unbond_ledger(Ledger[controller], value, CurrentEra))
       ELSE UNCHANGED <<Ledger, locks>>
    /\ last_call' = <<"unbond", "Ok">>
    /\ UNCHANGED <<Bonded, Payee, Validators, Nominators, free_balance>>
    /\ UNCHANGED <<configVars, eraVars, eraInfoVars, electionVars, slashVars,
                   driverVars>>

withdraw_unbonded_result(controller) ==
    IF controller \notin DOMAIN Ledger THEN "NotController"
    ELSE LET ledger == IF IsSome(CurrentEra)
                       THEN consolidate_unlocked(Ledger[controller],
                                                 Unwrap(CurrentEra))
                       ELSE Ledger[controller]
         IN  IF ledger.unlocking = <<>> /\ ledger.active = 0
             THEN kill_stash_result(ledger.stash)
             ELSE "Ok"

withdraw_unbonded(controller) ==
    /\ LockStakingStatus("withdraw_unbonded") = "Valid"
    /\ withdraw_unbonded_result(controller) = "Ok"
    /\ LET ledger == IF IsSome(CurrentEra)
                     THEN consolidate_unlocked(Ledger[controller],
                                               Unwrap(CurrentEra))
                     ELSE Ledger[controller]
       IN  IF ledger.unlocking = <<>> /\ ledger.active = 0
           THEN /\ kill_stash(ledger.stash)
                /\ locks' = remove_lock(locks, ledger.stash)
           ELSE /\ update_ledger(controller, ledger)
                /\ UNCHANGED <<Bonded, Payee, Validators, Nominators>>
    /\ last_call' = <<"withdraw_unbonded", "Ok">>
    /\ UNCHANGED free_balance
    /\ UNCHANGED <<configVars, eraVars, eraInfoVars, electionVars, slashVars,
                   driverVars>>

rebond_result(controller) ==
    IF controller \notin DOMAIN Ledger THEN "NotController"
    ELSE IF ~(Len(Ledger[controller].unlocking) > 0) THEN "NoUnlockChunk"
    ELSE "Ok"

rebond(controller, value) ==
    /\ LockStakingStatus("rebond") = "Valid"
    /\ rebond_result(controller) = "Ok"
    /\ update_ledger(controller, ledger_rebond(Ledger[controller], value))
    /\ last_call' = <<"rebond", "Ok">>
    /\ UNCHANGED <<Bonded, Payee, Validators, Nominators, free_balance>>
    /\ UNCHANGED <<configVars, eraVars, eraInfoVars, electionVars, slashVars,
                   driverVars>>

controller_result(controller) ==
    IF controller \notin DOMAIN Ledger THEN "NotController" ELSE "Ok"

\* validate that leaves the nomination of the stash in place.
validate_keeps_nomination(controller, prefs) ==
    /\ LockStakingStatus("validate") = "Valid"
    /\ controller_result(controller) = "Ok"
    /\ Validators' = Insert(Validators, Ledger[controller].stash, prefs)
    /\ last_call' = <<"validate", "Ok">>
    /\ UNCHANGED <<Bonded, Ledger, Payee, Nominators, currencyVars>>
    /\ UNCHANGED <<configVars, eraVars, eraInfoVars, electionVars, slashVars,
                   driverVars>>

validate(controller, prefs) ==
    /\ LockStakingStatus("validate") = "Valid"
    /\ controller_result(controller) = "Ok"
    /\ LET stash == Ledger[controller].stash
       IN  /\ Nominators' = Remove(Nominators, stash)
           /\ Validators' = Insert(Validators, stash, prefs)
    /\ last_call' = <<"validate", "Ok">>
    /\ UNCHANGED <<Bonded, Ledger, Payee, currencyVars>>
    /\ UNCHANGED <<configVars, eraVars, eraInfoVars, electionVars, slashVars,
                   driverVars>>

nominate_result(controller, targets) ==
    IF controller \notin DOMAIN Ledger THEN "NotController"
    ELSE IF targets = <<>> THEN "EmptyTargets"
    ELSE "Ok"

nominate(controller, targets) ==
    /\ LockStakingStatus("nominate") = "Valid"
    /\ nominate_result(controller, targets) = "Ok"
    /\ LET stash == Ledger[controller].stash
           nominations == [targets |-> targets,
                           submitted_in |-> UnwrapOr(CurrentEra, 0),
                           suppressed |-> FALSE]
       IN  /\ Validators' = Remove(Validators, stash)
           /\ Nominators' = Insert(Nominators, stash, nominations)
    /\ last_call' = <<"nominate", "Ok">>
    /\ UNCHANGED <<Bonded, Ledger, Payee, currencyVars>>
    /\ UNCHANGED <<configVars, eraVars, eraInfoVars, electionVars, slashVars,
                   driverVars>>

chill(controller) ==
    /\ LockStakingStatus("chill") = "Valid"
    /\ controller_result(controller) = "Ok"
    /\ chill_stash(Ledger[controller].stash)
    /\ last_call' = <<"chill", "Ok">>
    /\ UNCHANGED <<Bonded, Ledger, Payee, currencyVars>>
    /\ UNCHANGED <<configVars, eraVars, eraInfoVars, electionVars, slashVars,
                   driverVars>>

set_payee(controller, dest) ==
    /\ LockStakingStatus("set_payee") = "Valid"
    /\ controller_result(controller) = "Ok"
    /\ Payee' = Insert(Payee, Ledger[controller].stash, dest)
    /\ last_call' = <<"set_payee", "Ok">>
    /\ UNCHANGED <<Bonded, Ledger, Validators, Nominators, currencyVars>>
    /\ UNCHANGED <<configVars, eraVars, eraInfoVars, electionVars, slashVars,
                   driverVars>>

\* set_controller without the test that the new controller is free.
set_controller_result_any(stash, controller) ==
    IF stash \notin DOMAIN Bonded THEN "NotStash" ELSE "Ok"

set_controller_result(stash, controller) ==
    IF stash \notin DOMAIN Bonded THEN "NotStash"
    ELSE IF controller \in DOMAIN Ledger THEN "AlreadyPaired"
    ELSE "Ok"

set_controller(stash, controller) ==
    /\ LockStakingStatus("set_controller") = "Valid"
    /\ set_controller_result(stash, controller) = "Ok"
    /\ LET old_controller == Bonded[stash]
       IN  IF controller # old_controller
           THEN /\ Bonded' = Insert(Bonded, stash, controller)
                /\ Ledger' = IF old_controller \in DOMAIN Ledger
                             THEN Insert(Remove(Ledger, old_controller),
                                         controller, Ledger[old_controller])
                             ELSE Ledger
           ELSE UNCHANGED <<Bonded, Ledger>>
    /\ last_call' = <<"set_controller", "Ok">>
    /\ UNCHANGED <<Payee, Validators, Nominators, currencyVars>>
    /\ UNCHANGED <<configVars, eraVars, eraInfoVars, electionVars, slashVars,
                   driverVars>>

\* Root call: the signed extension lets it pass while the window is open.
force_unstake(stash) ==
    /\ LockStakingStatus("force_unstake") = "Valid"
    /\ kill_stash_result(stash) = "Ok"
    /\ kill_stash(stash)
    /\ locks' = remove_lock(locks, stash)
    /\ last_call' = <<"force_unstake", "Ok">>
    /\ UNCHANGED free_balance
    /\ UNCHANGED <<configVars, eraVars, eraInfoVars, electionVars, slashVars,
                   driverVars>>

reap_stash_result(stash) ==
    IF total_balance(stash) # 0 THEN "FundedTarget"
    ELSE kill_stash_result(stash)

reap_stash(stash) ==
    /\ LockStakingStatus("reap_stash") = "Valid"
    /\ reap_stash_result(stash) = "Ok"
    /\ kill_stash(stash)
    /\ locks' = remove_lock(locks, stash)
    /\ last_call' = <<"reap_stash", "Ok">>
    /\ UNCHANGED free_balance
    /\ UNCHANGED <<configVars, eraVars, eraInfoVars, electionVars, slashVars,
                   driverVars>>


\* ------------------------------------------------- payout and slash steps

\* T::Currency::deposit_into_existing succeeds on a live account only.
can_deposit(who) == free_balance[who] > 0

\* Module::make_payout
make_payout(stash, amount) ==
    /\ amount > 0
    /\ stash \in DOMAIN Bonded
    /\ free_balance[stash] + amount <= MaxBalance
    /\ free_balance[Bonded[stash]] + amount <= MaxBalance
    /\ Bonded[stash] \in DOMAIN Ledger
          => Ledger[Bonded[stash]].total + amount <= MaxBalance
    /\ LET dest == payee(stash)
           controller == Bonded[stash]
       IN  CASE dest = "Controller" ->
                  /\ free_balance' = IF can_deposit(controller)
                        THEN [free_balance EXCEPT ![controller] = @ + amount]
                        ELSE free_balance
                  /\ UNCHANGED <<Ledger, locks>>
             [] dest = "Stash" ->
                  /\ free_balance' = IF can_deposit(stash)
                        THEN [free_balance EXCEPT ![stash] = @ + amount]
                        ELSE free_balance
                  /\ UNCHANGED <<Ledger, locks>>
             [] dest = "Staked" ->
                  IF controller \in DOMAIN Ledger
                  THEN LET l == Ledger[controller]
                       IN  /\ free_balance' = IF can_deposit(stash)
                                THEN [free_balance EXCEPT ![stash] = @ + amount]
                                ELSE free_balance
                           /\ update_ledger(controller,
                                [l EXCEPT !.active = l.active + amount,
                                          !.total = l.total + amount])
                  ELSE UNCHANGED <<Ledger, locks, free_balance>>
    /\ last_call' = <<"make_payout", "Ok">>
    /\ UNCHANGED <<Bonded, Payee, Validators, Nominators>>
    /\ UNCHANGED <<configVars, eraVars, eraInfoVars, electionVars, slashVars,
                   driverVars>>

\* slashing::do_slash on the stores st = [Ledger, locks, free_balance]: the
\* ledger of the stash is slashed, the currency slashed by the same amount
\* and the ledger and its lock rewritten.
do_slash_on(st, stash, value) ==
    IF stash \notin DOMAIN Bonded \/ Bonded[stash] \notin DOMAIN st.Ledger
    THEN st
    ELSE
        LET controller == Bonded[stash]
            r == ledger_slash(st.Ledger[controller], value, minimum_balance)
        IN  IF r.slashed = 0 THEN st
            ELSE [Ledger |-> Insert(st.Ledger, controller, r.ledger),
                  locks |-> set_lock(st.locks, stash, r.ledger.total),
                  free_balance |-> [st.free_balance EXCEPT
                                      ![stash] = SatSub(@, r.slashed)]]

RECURSIVE slash_nominators_on(_, _)
slash_nominators_on(st, others) ==
    IF others = <<>> THEN st
    ELSE slash_nominators_on(do_slash_on(st, Head(others)[1], Head(others)[2]),
                             Tail(others))

\* slashing::apply_slash: the validator's own share, then every nominator's.
apply_slash_on(st, slash) ==
    slash_nominators_on(do_slash_on(st, slash.validator, slash.own),
                        slash.others)

RECURSIVE apply_slashes_on(_, _)
apply_slashes_on(st, slashes) ==
    IF slashes = <<>> THEN st
    ELSE apply_slashes_on(apply_slash_on(st, Head(slashes)), Tail(slashes))

Stores == [Ledger |-> Ledger, locks |-> locks, free_balance |-> free_balance]

\* One call of slashing::do_slash, as the slashing engine makes it.
do_slash(stash, value) ==
    /\ value > 0
    /\ stash \in DOMAIN Bonded
    /\ LET st == do_slash_on(Stores, stash, value)
       IN  /\ Ledger' = st.Ledger
           /\ locks' = st.locks
           /\ free_balance' = st.free_balance
    /\ last_call' = <<"do_slash", "Ok">>
    /\ UNCHANGED <<Bonded, Payee, Validators, Nominators>>
    /\ UNCHANGED <<configVars, eraVars, eraInfoVars, electionVars, slashVars,
                   driverVars>>


\* --------------------------------------------------------------- election

\* T::MaxNominatorRewardedPerValidator
MaxNominatorRewardedPerValidator == 1

\* The accounts of a set as a sequence in increasing order (the iteration
\* order of a BTreeMap keyed by account).
RECURSIVE SortedSeq(_)
SortedSeq(S) ==
    IF S = {} THEN <<>>
    ELSE LET m == CHOOSE x \in S : \A y \in S : x <= y
         IN  <<m>> \o SortedSeq(S \ {m})

SeqToSet(q) == {q[i] : i \in 1..Len(q)}

RECURSIVE SumOver(_, _)
SumOver(S, f) ==
    IF S = {} THEN 0
    ELSE LET x == CHOOSE y \in S : TRUE IN f[x] + SumOver(S \ {x}, f)

\* The stake that approves of a candidate: its own and its nominators'.
approval_stake(v) ==
    slashable_balance_of(v)
    + SumOver({n \in DOMAIN Nominators : v \in SeqToSet(Nominators[n].targets)},
              [n \in Accounts |-> slashable_balance_of(n)])

\* Whether candidate a is elected before candidate b.
elected_before(a, b) ==
    \/ approval_stake(a) > approval_stake(b)
    \/ approval_stake(a) = approval_stake(b) /\ a < b

\* sp_phragmen::elect as do_phragmen calls it: None with fewer candidates
\* than the minimum, else the winners.
elect_winners ==
    LET candidates == DOMAIN Validators
        minimum == Max(MinimumValidatorCount, 1)
        to_elect == Min(ValidatorCount, Cardinality(candidates))
    IN  IF Cardinality(candidates) < minimum THEN None
        ELSE Some({v \in candidates :
                Cardinality({w \in candidates : elected_before(w, v)}) < to_elect})

\* The winner a nominator's stake is assigned to: its first elected target.
assigned_to(n, winners) ==
    LET t == Nominators[n].targets
        hits == {i \in 1..Len(t) : t[i] \in winners}
    IN  IF hits = {} THEN None
        ELSE Some(t[CHOOSE i \in hits : \A j \in hits : i <= j])

\* Module::collect_exposure for one winner of the support map.
collect_exposure(v, winners) ==
    LET backers == SortedSeq({n \in DOMAIN Nominators :
                                assigned_to(n, winners) = Some(v)})
        others == [i \in 1..Len(backers) |->
                     [who |-> backers[i],
                      value |-> slashable_balance_of(backers[i])]]
        own == slashable_balance_of(v)
    IN  [total |-> own + SumValues(others), own |-> own, others |-> others]

\* Module::do_phragmen_with_post_processing
do_phragmen_with_post_processing(compute) ==
    LET w == elect_winners
    IN  IF w = None THEN None
        ELSE LET elected == SortedSeq(Unwrap(w))
             IN  Some([elected_stashes |-> elected,
                       exposures |-> [i \in 1..Len(elected) |->
                           <<elected[i], collect_exposure(elected[i], Unwrap(w))>>],
                       compute |-> compute])

\* try_do_phragmen without the look into QueuedElected.
try_do_phragmen_on_chain == do_phragmen_with_post_processing("OnChain")

\* Module::try_do_phragmen: the queued result, else the on-chain election.
try_do_phragmen ==
    IF IsSome(QueuedElected) THEN QueuedElected
    ELSE do_phragmen_with_post_processing("OnChain")

\* The clipping without the sort: the first n entries.
FirstEntries(others, n) ==
    SubSeq(others, 1, Min(n, Len(others)))

\* The largest `n` entries of `others` by value, in decreasing order.
RECURSIVE LargestFirst(_, _)
LargestFirst(others, n) ==
    IF n = 0 \/ others = <<>> THEN <<>>
    ELSE LET i == CHOOSE k \in 1..Len(others) :
                    /\ \A j \in 1..Len(others) : others[k].value >= others[j].value
                    /\ \A j \in 1..(k - 1) : others[j].value < others[k].value
         IN  <<others[i]>> \o
             LargestFirst([j \in 1..(Len(others) - 1) |->
                              IF j < i THEN others[j] ELSE others[j + 1]], n - 1)

\* The clipped copy of an exposure, select_and_update_validators.
exposure_clipped(exposure) ==
    IF Len(exposure.others) > MaxNominatorRewardedPerValidator
    THEN [exposure EXCEPT
            !.others = LargestFirst(exposure.others,
                                    MaxNominatorRewardedPerValidator)]
    ELSE exposure

\* --------------------------------------------------------------- the eras

RemovePrefix(m, era) == [k \in {x \in DOMAIN m : x[1] # era} |-> m[k]]

\* The seven maps of per-era information, as one record.
era_information ==
    [ErasStakers |-> ErasStakers,
     ErasStakersClipped |-> ErasStakersClipped,
     ErasValidatorPrefs |-> ErasValidatorPrefs,
     ErasValidatorReward |-> ErasValidatorReward,
     ErasRewardPoints |-> ErasRewardPoints,
     ErasTotalStake |-> ErasTotalStake,
     ErasStartSessionIndex |-> ErasStartSessionIndex]

\* Module::clear_era_information on a record of the seven maps.
clear_era_information(info, era_index) ==
    [ErasStakers |-> RemovePrefix(info.ErasStakers, era_index),
     ErasStakersClipped |-> RemovePrefix(info.ErasStakersClipped, era_index),
     ErasValidatorPrefs |-> RemovePrefix(info.ErasValidatorPrefs, era_index),
     ErasValidatorReward |-> Remove(info.ErasValidatorReward, era_index),
     ErasRewardPoints |-> Remove(info.ErasRewardPoints, era_index),
     ErasTotalStake |-> Remove(info.ErasTotalStake, era_index),
     ErasStartSessionIndex |-> Remove(info.ErasStartSessionIndex, era_index)]

\* clear_era_information for every era of first..(last - 1), in order.
RECURSIVE clear_eras(_, _, _)
clear_eras(info, first, last) ==
    IF first >= last THEN info
    ELSE clear_eras(clear_era_information(info, first), first + 1, last)

write_era_information(info) ==
    /\ ErasStakers' = info.ErasStakers
    /\ ErasStakersClipped' = info.ErasStakersClipped
    /\ ErasValidatorPrefs' = info.ErasValidatorPrefs
    /\ ErasValidatorReward' = info.ErasValidatorReward
    /\ ErasRewardPoints' = info.ErasRewardPoints
    /\ ErasTotalStake' = info.ErasTotalStake
    /\ ErasStartSessionIndex' = info.ErasStartSessionIndex

InsertAll(m, era, stashes, f) ==
    [k \in (DOMAIN m) \cup {<<era, stashes[i]>> : i \in 1..Len(stashes)} |->
        IF k[1] = era /\ k[2] \in SeqToSet(stashes) THEN f[k[2]] ELSE m[k]]

\* Module::select_and_update_validators on the record of era information:
\* the entries of the elected set under `current_era`.
select_and_update_validators(info, current_era, r) ==
    LET stashes == [i \in 1..Len(r.exposures) |-> r.exposures[i][1]]
        expo == [v \in SeqToSet(stashes) |->
                    LET i == CHOOSE j \in 1..Len(r.exposures) :
                                r.exposures[j][1] = v
                    IN  r.exposures[i][2]]
        total_stake == SumOver(SeqToSet(stashes),
                               [v \in SeqToSet(stashes) |-> expo[v].total])
        default_pref == [commission |-> 0]
    IN  [info EXCEPT
            !.ErasStakers = InsertAll(@, current_era, stashes, expo),
            !.ErasStakersClipped =
                InsertAll(@, current_era, stashes,
                          [v \in SeqToSet(stashes) |-> exposure_clipped(expo[v])]),
            !.ErasTotalStake = Insert(@, current_era, total_stake),
            !.ErasValidatorPrefs =
                InsertAll(@, current_era, r.elected_stashes,
                          [v \in SeqToSet(r.elected_stashes) |->
                              IF v \in DOMAIN Validators THEN Validators[v]
                              ELSE default_pref])]

\* What Module::new_era returns to the session module.
new_era_result == IF try_do_phragmen = None THEN "None" ELSE "Some"

\* Module::new_era with select_and_update_validators.
new_era(start_session_index) ==
    LET current_era == IF IsSome(CurrentEra) THEN Unwrap(CurrentEra) + 1 ELSE 0
        inserted == [era_information EXCEPT
                        !.ErasStartSessionIndex =
                            Insert(@, current_era, start_session_index)]
        cleaned == IF current_era >= HistoryDepth + 1
                   THEN clear_era_information(inserted,
                                              current_era - (HistoryDepth + 1))
                   ELSE inserted
        result == try_do_phragmen
    IN  /\ CurrentEra' = Some(current_era)
        \* try_do_phragmen takes QueuedElected and kills QueuedScore
        /\ QueuedElected' = None
        /\ QueuedScore' = None
        /\ IF result # None
           THEN /\ EraElectionStatus' = "Closed"
                /\ SnapshotValidators' = None
                /\ SnapshotNominators' = None
                /\ write_era_information(
                      select_and_update_validators(cleaned, current_era,
                                                   Unwrap(result)))
           ELSE /\ write_era_information(cleaned)
                /\ UNCHANGED <<EraElectionStatus, SnapshotValidators,
                               SnapshotNominators>>

plans_new_era_one_late(i) ==
    IF IsSome(CurrentEra)
    THEN LET current_era == Unwrap(CurrentEra)
             start == IF current_era \in DOMAIN ErasStartSessionIndex
                      THEN ErasStartSessionIndex[current_era] ELSE 0
             era_length == SatSub(i, start)
         IN  \/ ForceEra = "ForceNew"
             \/ ForceEra = "ForceAlways"
             \/ ForceEra = "NotForcing" /\ era_length > SessionsPerEra
    ELSE TRUE

plans_new_era_ignores_force_new(i) ==
    IF IsSome(CurrentEra)
    THEN LET current_era == Unwrap(CurrentEra)
             start == IF current_era \in DOMAIN ErasStartSessionIndex
                      THEN ErasStartSessionIndex[current_era] ELSE 0
             era_length == SatSub(i, start)
         IN  \/ ForceEra = "ForceAlways"
             \/ ForceEra \in {"NotForcing", "ForceNew"}
                /\ era_length >= SessionsPerEra
    ELSE TRUE

plans_new_era_when_due(i) ==
    IF IsSome(CurrentEra)
    THEN LET current_era == Unwrap(CurrentEra)
             start == IF current_era \in DOMAIN ErasStartSessionIndex
                      THEN ErasStartSessionIndex[current_era] ELSE 0
             era_length == SatSub(i, start)
         IN  \/ ForceEra = "ForceNew"
             \/ ForceEra = "ForceAlways"
             \/ era_length >= SessionsPerEra
    ELSE TRUE

\* Whether new_session(i) plans a new era, and the forcing mode it leaves.
plans_new_era(i) ==
    IF IsSome(CurrentEra)
    THEN LET current_era == Unwrap(CurrentEra)
             start == IF current_era \in DOMAIN ErasStartSessionIndex
                      THEN ErasStartSessionIndex[current_era] ELSE 0
             era_length == SatSub(i, start)
         IN  \/ ForceEra = "ForceNew"
             \/ ForceEra = "ForceAlways"
             \/ ForceEra = "NotForcing" /\ era_length >= SessionsPerEra
    ELSE TRUE

\* Module::new_session, as the session manager calls it with the index of
\* the session it plans.
new_session(i) ==
    /\ phase = "new"
    /\ session_index = i
    /\ IF plans_new_era(i)
       THEN /\ new_era(i)
            /\ ForceEra' = IF IsSome(CurrentEra) /\ ForceEra = "ForceNew"
                           THEN "NotForcing" ELSE ForceEra
            /\ IsCurrentSessionFinal' =
                  IF IsSome(CurrentEra) THEN FALSE ELSE IsCurrentSessionFinal
            /\ last_call' = <<"new_session", new_era_result>>
       ELSE LET start == IF Unwrap(CurrentEra) \in DOMAIN ErasStartSessionIndex
                         THEN ErasStartSessionIndex[Unwrap(CurrentEra)] ELSE 0
                era_length == SatSub(i, start)
            IN  /\ IsCurrentSessionFinal' =
                      IF era_length + 1 >= SessionsPerEra THEN TRUE
                      ELSE IsCurrentSessionFinal
                /\ last_call' = <<"new_session", "None">>
                /\ UNCHANGED <<ForceEra, CurrentEra, ErasStartSessionIndex,
                               eraInfoVars, electionVars>>
    \* the session module plans sessions 0 and 1 at genesis and starts
    \* session 0; later it ends session i - 2 after planning session i
    /\ phase' = IF i = 0 THEN "new" ELSE IF i = 1 THEN "start0" ELSE "end"
    /\ session_index' = i + 1
    /\ UNCHANGED <<HistoryDepth, ValidatorCount, MinimumValidatorCount,
                   SessionsPerEra, ElectionLookahead, ActiveEra, BondedEras>>
    /\ UNCHANGED <<stakerVars, currencyVars, slashVars>>


\* The eras of apply_unapplied_slashes without the deferral: every era from
\* the earliest up to active_era - slash_defer_duration included.
eras_to_apply_one_early(active_era) ==
    IF IsSome(EarliestUnappliedSlash)
    THEN {era \in 0..MaxSession :
            /\ Unwrap(EarliestUnappliedSlash) <= era
            /\ era <= SatSub(active_era, SlashDeferDuration)}
    ELSE {}

\* Module::apply_unapplied_slashes: the eras whose queues it takes.
eras_to_apply(active_era) ==
    IF IsSome(EarliestUnappliedSlash)
    THEN LET keep_from == SatSub(active_era, SlashDeferDuration)
         IN  {era \in 0..MaxSession : /\ Unwrap(EarliestUnappliedSlash) <= era
                                      /\ era < keep_from}
    ELSE {}

unapplied_slashes(era) ==
    IF era \in DOMAIN UnappliedSlashes THEN UnappliedSlashes[era] ELSE <<>>

\* The slashes of the queues of `eras`, in the order of the eras.
RECURSIVE slashes_of(_)
slashes_of(eras) ==
    IF eras = {} THEN <<>>
    ELSE LET era == CHOOSE e \in eras : \A f \in eras : e <= f
         IN  unapplied_slashes(era) \o slashes_of(eras \ {era})

\* The log of the slashes handed to slashing::apply_slash.
log_applied(log, slashes, active_era) ==
    [id \in DOMAIN log |->
        IF \E i \in 1..Len(slashes) : slashes[i].id = id
        THEN Append(log[id], active_era) ELSE log[id]]

\* apply_unapplied_slashes reading the queues with get instead of take: the
\* applied queues stay in storage.
apply_unapplied_slashes_get(active_era) ==
    LET slashes == slashes_of(eras_to_apply(active_era))
        st == apply_slashes_on(Stores, slashes)
    IN  /\ UNCHANGED <<UnappliedSlashes, EarliestUnappliedSlash>>
        /\ Ledger' = st.Ledger
        /\ locks' = st.locks
        /\ free_balance' = st.free_balance
        /\ applied' = log_applied(applied, slashes, active_era)

\* Module::apply_unapplied_slashes
apply_unapplied_slashes(active_era) ==
    LET eras == eras_to_apply(active_era)
        slashes == slashes_of(eras)
        st == apply_slashes_on(Stores, slashes)
    IN  /\ UnappliedSlashes' =
              [era \in (DOMAIN UnappliedSlashes) \ eras |-> UnappliedSlashes[era]]
        /\ EarliestUnappliedSlash' =
              IF IsSome(EarliestUnappliedSlash)
              THEN Some(Max(Unwrap(EarliestUnappliedSlash),
                            SatSub(active_era, SlashDeferDuration)))
              ELSE None
        /\ Ledger' = st.Ledger
        /\ locks' = st.locks
        /\ free_balance' = st.free_balance
        /\ applied' = log_applied(applied, slashes, active_era)

\* start_era without the pruning of BondedEras.
prune_bonded_none(bonded, first_kept) == bonded

\* The pruning of BondedEras in start_era.
RECURSIVE prune_bonded(_, _)
prune_bonded(bonded, first_kept) ==
    IF bonded # <<>> /\ Head(bonded)[1] < first_kept
    THEN prune_bonded(Tail(bonded), first_kept)
    ELSE bonded

\* Module::start_era
start_era(start_session) ==
    LET active_era == IF IsSome(ActiveEra) THEN Unwrap(ActiveEra).index + 1
                      ELSE 0
        pushed == Append(BondedEras, <<active_era, start_session>>)
    IN  /\ ActiveEra' = Some([index |-> active_era, start |-> None])
        /\ BondedEras' = IF active_era > BondingDuration
                         THEN prune_bonded(pushed, active_era - BondingDuration)
                         ELSE pushed
        /\ apply_unapplied_slashes(active_era)

\* Whether Module::start_session starts an era.
starts_era(start_session) ==
    LET next_active_era == IF IsSome(ActiveEra) THEN Unwrap(ActiveEra).index + 1
                           ELSE 0
    IN  /\ next_active_era \in DOMAIN ErasStartSessionIndex
        /\ ErasStartSessionIndex[next_active_era] <= start_session

\* Module::start_session, as the session module calls it.
start_session(i) ==
    /\ phase \in {"start0", "start"}
    /\ i = IF phase = "start0" THEN 0 ELSE session_index - 1
    /\ IF starts_era(i)
       THEN /\ start_era(i)
            /\ last_call' = <<"start_era", "Ok">>
       ELSE /\ last_call' = <<"start_session", "Ok">>
            /\ UNCHANGED <<ActiveEra, BondedEras, UnappliedSlashes,
                           EarliestUnappliedSlash, Ledger, locks,
                           free_balance, applied>>
    /\ phase' = IF phase = "start0" THEN "end" ELSE "new"
    /\ UNCHANGED <<Bonded, Payee, Validators, Nominators, CurrentEra,
                   ErasStartSessionIndex, IsCurrentSessionFinal, cancelled,
                   offences, paid, session_index>>
    /\ UNCHANGED <<configVars, eraInfoVars, electionVars>>

\* The era payouts inflation::compute_total_payout may give.
Payouts == {1}

\* Module::end_session with end_era, as the session module calls it;
\* total_payout is what inflation::compute_total_payout gives.
end_session(i, total_payout) ==
    /\ phase = "end"
    /\ i = session_index - 2
    /\ IF /\ IsSome(ActiveEra)
          /\ i + 1 = (IF Unwrap(ActiveEra).index + 1 \in DOMAIN ErasStartSessionIndex
                      THEN ErasStartSessionIndex[Unwrap(ActiveEra).index + 1]
                      ELSE 0)
          /\ IsSome(Unwrap(ActiveEra).start)
       THEN ErasValidatorReward' =
               Insert(ErasValidatorReward, Unwrap(ActiveEra).index, total_payout)
       ELSE UNCHANGED ErasValidatorReward
    /\ phase' = "start"
    /\ last_call' = <<"end_session", "Ok">>
    /\ UNCHANGED <<ErasStakers, ErasStakersClipped, ErasValidatorPrefs,
                   ErasRewardPoints, ErasTotalStake, session_index>>
    /\ UNCHANGED <<configVars, stakerVars, currencyVars, eraVars,
                   electionVars, slashVars>>


\* T::ElectionLookahead of the runtimes that open the election window one
\* block before the session ends
OneBlockLookahead == 1

\* The most validators a snapshot holds: the largest ValidatorIndex (u16).
MAX_VALIDATORS == 65535

\* The most voters a snapshot holds: the largest NominatorIndex (u32),
\* 4294967295, as far as the integers of the model checker go.
MAX_NOMINATORS == 2147483647

\* Whether Module::create_stakers_snapshot creates the snapshot.
snapshot_fits ==
    /\ Cardinality(DOMAIN Validators) <= MAX_VALIDATORS
    /\ Cardinality(DOMAIN Nominators) + Cardinality(DOMAIN Validators)
          <= MAX_NOMINATORS

create_stakers_snapshot_validators_only ==
    /\ SnapshotValidators' = Some(SortedSeq(DOMAIN Validators))
    /\ UNCHANGED SnapshotNominators

\* Module::create_stakers_snapshot: the validators, and the nominators
\* followed by the validators as their own voters.  With at most three
\* stakers the snapshot is never too big.
create_stakers_snapshot ==
    /\ SnapshotValidators' = Some(SortedSeq(DOMAIN Validators))
    /\ SnapshotNominators' =
          Some(SortedSeq(DOMAIN Nominators) \o SortedSeq(DOMAIN Validators))

\* Module::on_initialize; `remaining` is the number of blocks to the next
\* session.
\* on_initialize without the test that blocks remain before the session
\* ends.
on_initialize_at_session_end(remaining) ==
    /\ IF is_closed /\ IsCurrentSessionFinal
          /\ remaining <= ElectionLookahead
          /\ snapshot_fits
       THEN /\ create_stakers_snapshot
            /\ EraElectionStatus' = "Open"
       ELSE UNCHANGED <<SnapshotValidators, SnapshotNominators,
                        EraElectionStatus>>
    /\ last_call' = <<"on_initialize", "Ok">>
    /\ UNCHANGED <<QueuedElected, QueuedScore>>
    /\ UNCHANGED <<configVars, stakerVars, currencyVars, eraVars, eraInfoVars,
                   slashVars, driverVars>>

on_initialize(remaining) ==
    /\ IF is_closed /\ IsCurrentSessionFinal
          /\ remaining <= ElectionLookahead /\ remaining # 0
          /\ snapshot_fits
       THEN /\ create_stakers_snapshot
            /\ EraElectionStatus' = "Open"
       ELSE UNCHANGED <<SnapshotValidators, SnapshotNominators,
                        EraElectionStatus>>
    /\ last_call' = <<"on_initialize", "Ok">>
    /\ UNCHANGED <<QueuedElected, QueuedScore>>
    /\ UNCHANGED <<configVars, stakerVars, currencyVars, eraVars, eraInfoVars,
                   slashVars, driverVars>>

\* Module::on_finalize; the clock is the session count.
on_finalize ==
    /\ IsSome(ActiveEra)
    /\ Unwrap(ActiveEra).start = None
    /\ ActiveEra' = Some([Unwrap(ActiveEra) EXCEPT !.start = Some(session_index)])
    /\ last_call' = <<"on_finalize", "Ok">>
    /\ UNCHANGED <<CurrentEra, ErasStartSessionIndex, BondedEras,
                   IsCurrentSessionFinal>>
    /\ UNCHANGED <<configVars, stakerVars, currencyVars, eraInfoVars,
                   electionVars, slashVars, driverVars>>

\* The loop of reward_by_ids adding to the total only.
RECURSIVE add_points_to_total(_, _)
add_points_to_total(era_rewards, validators_points) ==
    IF validators_points = <<>> THEN era_rewards
    ELSE add_points_to_total(
            [era_rewards EXCEPT !.total = @ + Head(validators_points)[2]],
            Tail(validators_points))

\* The points of an era after the loop of reward_by_ids.
RECURSIVE add_points(_, _)
add_points(era_rewards, validators_points) ==
    IF validators_points = <<>> THEN era_rewards
    ELSE LET validator == Head(validators_points)[1]
             points == Head(validators_points)[2]
             before == IF validator \in DOMAIN era_rewards.individual
                       THEN era_rewards.individual[validator] ELSE 0
         IN  add_points([total |-> era_rewards.total + points,
                         individual |-> Insert(era_rewards.individual,
                                               validator, before + points)],
                        Tail(validators_points))

\* Module::reward_by_ids
reward_by_ids(validators_points) ==
    /\ IF IsSome(ActiveEra)
       THEN LET era == Unwrap(ActiveEra).index
                era_rewards == IF era \in DOMAIN ErasRewardPoints
                               THEN ErasRewardPoints[era]
                               ELSE [total |-> 0, individual |-> EmptyMap]
            IN  ErasRewardPoints' =
                   Insert(ErasRewardPoints, era,
                          add_points(era_rewards, validators_points))
       ELSE UNCHANGED ErasRewardPoints
    /\ last_call' = <<"reward_by_ids", "Ok">>
    /\ UNCHANGED <<ErasStakers, ErasStakersClipped, ErasValidatorPrefs,
                   ErasValidatorReward, ErasTotalStake>>
    /\ UNCHANGED <<configVars, stakerVars, currencyVars, eraVars,
                   electionVars, slashVars, driverVars>>

\* ---------------------------------------------------------- governance

\* Module::set_validator_count
set_validator_count(new) ==
    /\ LockStakingStatus("set_validator_count") = "Valid"
    /\ ValidatorCount' = new
    /\ last_call' = <<"set_validator_count", "Ok">>
    /\ UNCHANGED <<HistoryDepth, MinimumValidatorCount, ForceEra,
                   SessionsPerEra, ElectionLookahead>>
    /\ UNCHANGED <<stakerVars, currencyVars, eraVars, eraInfoVars,
                   electionVars, slashVars, driverVars>>

\* Module::force_no_eras, force_new_era and force_new_era_always
force(call, mode) ==
    /\ LockStakingStatus(call) = "Valid"
    /\ ForceEra' = mode
    /\ last_call' = <<call, "Ok">>
    /\ UNCHANGED <<HistoryDepth, ValidatorCount, MinimumValidatorCount,
                   SessionsPerEra, ElectionLookahead>>
    /\ UNCHANGED <<stakerVars, currencyVars, eraVars, eraInfoVars,
                   electionVars, slashVars, driverVars>>

force_no_eras == force("force_no_eras", "ForceNone")
force_new_era == force("force_new_era", "ForceNew")
force_new_era_always == force("force_new_era_always", "ForceAlways")

\* Module::set_history_depth
set_history_depth(new_history_depth) ==
    /\ LockStakingStatus("set_history_depth") = "Valid"
    /\ IF IsSome(CurrentEra)
       THEN LET current_era == Unwrap(CurrentEra)
                last_kept == SatSub(current_era, HistoryDepth)
                new_last_kept == SatSub(current_era, new_history_depth)
            IN  /\ write_era_information(
                      clear_eras(era_information, last_kept, new_last_kept))
                /\ HistoryDepth' = new_history_depth
       ELSE UNCHANGED <<HistoryDepth, ErasStartSessionIndex, eraInfoVars>>
    /\ last_call' = <<"set_history_depth", "Ok">>
    /\ UNCHANGED <<ValidatorCount, MinimumValidatorCount, ForceEra,
                   SessionsPerEra, ElectionLookahead, CurrentEra, ActiveEra,
                   BondedEras, IsCurrentSessionFinal>>
    /\ UNCHANGED <<stakerVars, currencyVars, electionVars, slashVars,
                   driverVars>>


\* ------------------------------------------------------------- offences

\* A Perbill of `percent` hundredths times a balance.
mul_percent(percent, x) == (percent * x + 49) \div 100

\* The era of BondedEras an offence of session slash_session falls in: the
\* newest era whose first session is not after it.
bonded_era_of(slash_session) ==
    LET hits == {k \in 1..Len(BondedEras) : BondedEras[k][2] <= slash_session}
    IN  IF hits = {} THEN None
        ELSE Some(BondedEras[CHOOSE k \in hits : \A j \in hits : j <= k][1])

\* slashing::compute_slash for a validator without an earlier slash: the
\* shares of the exposure, or nothing for an offence of before the bonding
\* window or without any stake to slash.
compute_slash(id, stash, slash, exposure, slash_era, window_start) ==
    LET own == mul_percent(slash, exposure.own)
        others == [k \in 1..Len(exposure.others) |->
                     <<exposure.others[k].who,
                       mul_percent(slash, exposure.others[k].value)>>]
    IN  IF slash_era < window_start \/ slash = 0 \/ own = 0 THEN None
        ELSE Some([id |-> id, validator |-> stash, own |-> own,
                   others |-> others, reporters |-> <<>>])

\* What on_offence returns when it does not ask can_report.
on_offence_result_unchecked == "Ok"

\* What OnOffenceHandler::on_offence returns.
on_offence_result == IF is_closed THEN "Ok" ELSE "Err"

\* The exposure the offences module identifies an offender of the active
\* era with.
exposure_of(stash) ==
    LET key == <<Unwrap(ActiveEra).index, stash>>
    IN  IF key \in DOMAIN ErasStakers THEN ErasStakers[key]
        ELSE [total |-> 0, own |-> 0, others |-> <<>>]

\* The era on_offence attributes an offence of session slash_session to,
\* if any.
slash_era_of(slash_session) ==
    LET active_era == Unwrap(ActiveEra).index
        active_era_start_session_index ==
            IF active_era \in DOMAIN ErasStartSessionIndex
            THEN ErasStartSessionIndex[active_era] ELSE 0
    IN  IF slash_session >= active_era_start_session_index
        THEN Some(active_era)
        ELSE bonded_era_of(slash_session)

\* The slash on_offence computes for the offender, if any.
offence_slash(stash, slash_fraction, slash_session) ==
    IF ActiveEra = None THEN None
    ELSE IF slash_era_of(slash_session) = None THEN None
    ELSE compute_slash(Len(offences) + 1, stash, slash_fraction,
                       exposure_of(stash),
                       Unwrap(slash_era_of(slash_session)),
                       SatSub(Unwrap(ActiveEra).index, BondingDuration))

\* OnOffenceHandler::on_offence past the test of can_report, for one
\* offender, reported once.
on_offence_reported(stash, slash_fraction, slash_session) ==
    /\ Len(offences) < MaxOffences
    /\ \A k \in 1..Len(offences) : offences[k].offender # stash
    /\ LET unapplied == offence_slash(stash, slash_fraction, slash_session)
       IN  /\ offences' = Append(offences,
                  [offender |-> stash,
                   active_era |-> IF ActiveEra = None THEN None
                                  ELSE Some(Unwrap(ActiveEra).index),
                   slashed |-> unapplied # None])
           /\ EarliestUnappliedSlash' =
                 IF /\ ActiveEra # None
                    /\ slash_era_of(slash_session) # None
                    /\ EarliestUnappliedSlash = None
                 THEN Some(Unwrap(ActiveEra).index)
                 ELSE EarliestUnappliedSlash
           /\ IF unapplied = None
              THEN UNCHANGED <<UnappliedSlashes, applied, Ledger, locks,
                               free_balance>>
              ELSE IF SlashDeferDuration = 0
              THEN LET st == apply_slash_on(Stores, Unwrap(unapplied))
                   IN  /\ Ledger' = st.Ledger
                       /\ locks' = st.locks
                       /\ free_balance' = st.free_balance
                       /\ applied' = log_applied(applied, <<Unwrap(unapplied)>>,
                                                 Unwrap(ActiveEra).index)
                       /\ UNCHANGED UnappliedSlashes
              ELSE /\ UnappliedSlashes' =
                         Insert(UnappliedSlashes, Unwrap(ActiveEra).index,
                                Append(unapplied_slashes(Unwrap(ActiveEra).index),
                                       Unwrap(unapplied)))
                   /\ UNCHANGED <<applied, Ledger, locks, free_balance>>
    /\ last_call' = <<"on_offence", "Ok">>
    /\ UNCHANGED <<Bonded, Payee, Validators, Nominators, cancelled, paid>>
    /\ UNCHANGED <<configVars, eraVars, eraInfoVars, electionVars, driverVars>>

\* OnOffenceHandler::on_offence
on_offence(stash, slash_fraction, slash_session) ==
    IF on_offence_result = "Ok"
    THEN on_offence_reported(stash, slash_fraction, slash_session)
    ELSE /\ last_call' = <<"on_offence", "Err">>
         /\ UNCHANGED staking_state

\* The sort_unstable of cancel_deferred_slash.
RECURSIVE sort_unstable(_)
sort_unstable(q) ==
    IF q = <<>> THEN <<>>
    ELSE LET k == CHOOSE i \in 1..Len(q) : \A j \in 1..Len(q) : q[i] <= q[j]
         IN  <<q[k]>> \o sort_unstable([j \in 1..(Len(q) - 1) |->
                                          IF j < k THEN q[j] ELSE q[j + 1]])

RemoveAt(q, index) ==
    [j \in 1..(Len(q) - 1) |-> IF j <= index THEN q[j] ELSE q[j + 1]]

\* The loop of cancel_deferred_slash from its `removed`th index on: the
\* error it stops with, or the list it leaves.
RECURSIVE cancel_loop(_, _, _)
cancel_loop(slash_indices, removed, unapplied) ==
    IF removed >= Len(slash_indices)
    THEN [result |-> "Ok", unapplied |-> unapplied]
    ELSE LET index == slash_indices[removed + 1]
         IN  IF ~(removed <= index)
             THEN [result |-> "DuplicateIndex", unapplied |-> unapplied]
             ELSE IF ~(index - removed < Len(unapplied))
             THEN [result |-> "InvalidSlashIndex", unapplied |-> unapplied]
             ELSE cancel_loop(slash_indices, removed + 1,
                              RemoveAt(unapplied, index - removed))

cancel_deferred_slash_result(era, slash_indices) ==
    cancel_loop(sort_unstable(slash_indices), 0, unapplied_slashes(era))

\* Module::cancel_deferred_slash
cancel_deferred_slash(era, slash_indices) ==
    /\ LockStakingStatus("cancel_deferred_slash") = "Valid"
    /\ LET r == cancel_deferred_slash_result(era, slash_indices)
       IN  /\ r.result = "Ok"
           /\ UnappliedSlashes' = Insert(UnappliedSlashes, era, r.unapplied)
           /\ cancelled' = cancelled \cup
                 ({unapplied_slashes(era)[k].id :
                      k \in 1..Len(unapplied_slashes(era))}
                  \ {r.unapplied[k].id : k \in 1..Len(r.unapplied)})
    /\ last_call' = <<"cancel_deferred_slash", "Ok">>
    /\ UNCHANGED <<EarliestUnappliedSlash, applied, offences, paid>>
    /\ UNCHANGED <<configVars, stakerVars, currencyVars, eraVars, eraInfoVars,
                   electionVars, driverVars>>


\* ----------------------------------------------------------------- payouts

\* MAX_NOMINATIONS (16 in the source, lib.rs:304) scaled down so that the
\* runs reach a list of validators that is too long, and lists that name
\* a validator twice.
MAX_NOMINATIONS == 2

\* Perbill::from_rational_approximation(p, q), in hundredths.
from_rational_approximation(p, q) ==
    LET d == Max(q, 1) IN (Min(p, d) * 100) \div d

\* Perbill * Perbill, in hundredths (saturating_mul).
perbill_mul(a, b) == (a * b) \div 100

\* The storage getters with their default values.
eras_reward_points(era) ==
    IF era \in DOMAIN ErasRewardPoints THEN ErasRewardPoints[era]
    ELSE [total |-> 0, individual |-> EmptyMap]

eras_validator_prefs(era, stash) ==
    IF <<era, stash>> \in DOMAIN ErasValidatorPrefs
    THEN ErasValidatorPrefs[<<era, stash>>] ELSE [commission |-> 0]

eras_stakers(era, stash) ==
    IF <<era, stash>> \in DOMAIN ErasStakers THEN ErasStakers[<<era, stash>>]
    ELSE [total |-> 0, own |-> 0, others |-> <<>>]

eras_stakers_clipped(era, stash) ==
    IF <<era, stash>> \in DOMAIN ErasStakersClipped
    THEN ErasStakersClipped[<<era, stash>>]
    ELSE [total |-> 0, own |-> 0, others |-> <<>>]

\* The share of the era's points a validator earned, in hundredths.
validator_point_part(era, validator) ==
    LET era_reward_points == eras_reward_points(era)
        validator_point ==
            IF validator \in DOMAIN era_reward_points.individual
            THEN era_reward_points.individual[validator] ELSE 0
    IN  from_rational_approximation(validator_point, era_reward_points.total)

\* Module::make_payout on the stores st = [Ledger, locks, free_balance].
make_payout_on(st, stash, amount) ==
    LET dest == payee(stash)
        deposit(who) ==
            IF amount = 0 \/ st.free_balance[who] > 0
            THEN [st.free_balance EXCEPT ![who] = @ + amount]
            ELSE st.free_balance
    IN  CASE dest = "Controller" ->
               IF stash \in DOMAIN Bonded
               THEN [st EXCEPT !.free_balance = deposit(Bonded[stash])]
               ELSE st
          [] dest = "Stash" -> [st EXCEPT !.free_balance = deposit(stash)]
          [] dest = "Staked" ->
               IF stash \in DOMAIN Bonded /\ Bonded[stash] \in DOMAIN st.Ledger
               THEN LET l == st.Ledger[Bonded[stash]]
                        m == [l EXCEPT !.active = l.active + amount,
                                       !.total = l.total + amount]
                    IN  [Ledger |-> Insert(st.Ledger, Bonded[stash], m),
                         locks |-> set_lock(st.locks, stash, m.total),
                         free_balance |-> deposit(stash)]
               ELSE st

\* The test of last_reward that lets the last paid era be paid again.
already_paid_before(ledger, era) ==
    IsSome(ledger.last_reward) /\ Unwrap(ledger.last_reward) > era

\* Whether the payout of `era` was made to the ledger already.
already_paid(ledger, era) ==
    IsSome(ledger.last_reward) /\ Unwrap(ledger.last_reward) >= era

\* The payout step both do_payout_* end with: last_reward is written, then
\* the reward is paid; the accounts stay within the balances of the model.
pay(who, era, reward) ==
    LET ledger == [Ledger[who] EXCEPT !.last_reward = Some(era)]
        amount == mul_percent(reward, ErasValidatorReward[era])
        st == make_payout_on([Ledger |-> Insert(Ledger, who, ledger),
                              locks |-> locks,
                              free_balance |-> free_balance],
                             ledger.stash, amount)
        key == <<ledger.stash, era>>
    IN  /\ \A a \in Accounts : st.free_balance[a] <= MaxBalance
        /\ \A c \in DOMAIN st.Ledger : st.Ledger[c].total <= MaxBalance
        /\ Ledger' = st.Ledger
        /\ locks' = st.locks
        /\ free_balance' = st.free_balance
        /\ paid' = Insert(paid, key,
                          IF key \in DOMAIN paid THEN paid[key] + 1 ELSE 1)

\* Module::do_payout_validator: its result.
do_payout_validator_result(who, era) ==
    IF era \notin DOMAIN ErasValidatorReward THEN "InvalidEraToReward"
    ELSE IF who \notin DOMAIN Ledger THEN "NotController"
    ELSE IF already_paid(Ledger[who], era) THEN "InvalidEraToReward"
    ELSE "Ok"

\* The Perbill of the era payout do_payout_validator gives, in hundredths.
\* The validator's share computed with the commission it asks for now
\* instead of the one recorded for the era.
validator_reward_current_prefs(who, era) ==
    LET stash == Ledger[who].stash
        commission == IF stash \in DOMAIN Validators
                      THEN Validators[stash].commission ELSE 0
        exposure == eras_stakers(era, stash)
        exposure_part == from_rational_approximation(exposure.own,
                                                     exposure.total)
    IN  perbill_mul(validator_point_part(era, stash),
                    Min(100, commission
                             + perbill_mul(100 - commission, exposure_part)))

validator_reward(who, era) ==
    LET stash == Ledger[who].stash
        commission == eras_validator_prefs(era, stash).commission
        exposure == eras_stakers(era, stash)
        exposure_part == from_rational_approximation(exposure.own,
                                                     exposure.total)
    IN  perbill_mul(validator_point_part(era, stash),
                    Min(100, commission
                             + perbill_mul(100 - commission, exposure_part)))

\* payout_validator with Module::do_payout_validator
payout_validator(who, era) ==
    /\ LockStakingStatus("payout_validator") = "Valid"
    /\ do_payout_validator_result(who, era) = "Ok"
    /\ pay(who, era, validator_reward(who, era))
    /\ last_call' = <<"payout_validator", "Ok">>
    /\ UNCHANGED <<Bonded, Payee, Validators, Nominators>>
    /\ UNCHANGED <<UnappliedSlashes, EarliestUnappliedSlash, applied,
                   cancelled, offences>>
    /\ UNCHANGED <<configVars, eraVars, eraInfoVars, electionVars, driverVars>>

\* Module::do_payout_nominator: its result.
do_payout_nominator_result(who, era, validators) ==
    IF Len(validators) > MAX_NOMINATIONS THEN "InvalidNumberOfNominations"
    ELSE IF era \notin DOMAIN ErasValidatorReward THEN "InvalidEraToReward"
    ELSE IF who \notin DOMAIN Ledger THEN "NotController"
    ELSE IF already_paid(Ledger[who], era) THEN "InvalidEraToReward"
    ELSE "Ok"

\* The Perbill do_payout_nominator adds up over the (validator,
\* nominator_index) pairs, in hundredths; the index counts from 0.
RECURSIVE nominator_reward(_, _, _, _)
nominator_reward(stash, era, validators, reward) ==
    IF validators = <<>> THEN reward
    ELSE
        LET validator == Head(validators)[1]
            nominator_index == Head(validators)[2]
            commission == eras_validator_prefs(era, validator).commission
            validator_exposure == eras_stakers_clipped(era, validator)
            found == /\ nominator_index < Len(validator_exposure.others)
                     /\ validator_exposure.others[nominator_index + 1].who = stash
            part == perbill_mul(
                        perbill_mul(validator_point_part(era, validator),
                                    100 - commission),
                        from_rational_approximation(
                            validator_exposure.others[nominator_index + 1].value,
                            validator_exposure.total))
        IN  nominator_reward(stash, era, Tail(validators),
                             IF found THEN Min(100, reward + part) ELSE reward)

\* payout_nominator with Module::do_payout_nominator
payout_nominator(who, era, validators) ==
    /\ LockStakingStatus("payout_nominator") = "Valid"
    /\ do_payout_nominator_result(who, era, validators) = "Ok"
    /\ pay(who, era, nominator_reward(Ledger[who].stash, era, validators, 0))
    /\ last_call' = <<"payout_nominator", "Ok">>
    /\ UNCHANGED <<Bonded, Payee, Validators, Nominators>>
    /\ UNCHANGED <<UnappliedSlashes, EarliestUnappliedSlash, applied,
                   cancelled, offences>>
    /\ UNCHANGED <<configVars, eraVars, eraInfoVars, electionVars, driverVars>>

\* ------------------------------------------- the submitted solutions

\* Vec::get with the zero-based index of the source.
get(q, i) == IF i + 1 \in 1..Len(q) THEN Some(q[i + 1]) ELSE None

\* sp_phragmen::is_score_better(this, that): `that` is strictly better than
\* `this`.  A score is <<minimal support, sum of supports, sum of squared
\* supports>>; the first is maximised and the latter two are minimised.
is_score_better(this, that) ==
    \/ that[1] > this[1]
    \/ that[1] = this[1] /\ that[2] < this[2]
    \/ that[1] = this[1] /\ that[2] = this[2] /\ that[3] < this[3]

early_submission_never == FALSE

\* check_and_replace_solution: early solutions are discarded.
early_submission == ~is_open

weak_submission_allows_equal(claimed_score) ==
    /\ IsSome(QueuedScore)
    /\ ~is_score_better(Unwrap(QueuedScore), claimed_score)
    /\ Unwrap(QueuedScore) # claimed_score

\* check_and_replace_solution: the claimed score does not beat the queued
\* one, if there is any.
weak_submission(claimed_score) ==
    /\ IsSome(QueuedScore)
    /\ ~is_score_better(Unwrap(QueuedScore), claimed_score)

\* CompactAssignments::into_assignment on votes1, the pairs <<nominator
\* index, validator index>> of the voters with a single target: None when an
\* index is outside its snapshot.
into_assignment(votes1, snapshot_nominators, snapshot_validators) ==
    IF \E k \in 1..Len(votes1) :
          \/ get(snapshot_nominators, votes1[k][1]) = None
          \/ get(snapshot_validators, votes1[k][2]) = None
    THEN None
    ELSE Some([k \in 1..Len(votes1) |->
                 [who |-> Unwrap(get(snapshot_nominators, votes1[k][1])),
                  target |-> Unwrap(get(snapshot_validators, votes1[k][2]))]])

\* The loop of check_and_replace_solution over the assignments, from the
\* i-th on: the first error, or "Ok".  No slashing span is recorded in the
\* runs with submissions, so a nominated target is a valid one.
RECURSIVE check_assignments(_, _)
check_assignments(assignments, i) ==
    IF i > Len(assignments) THEN "Ok"
    ELSE LET who == assignments[i].who
             target == assignments[i].target
             is_validator == who \in DOMAIN Validators
             is_nominator == who \in DOMAIN Nominators
         IN  IF is_nominator = is_validator THEN "PhragmenBogusNominator"
             ELSE IF ~is_validator
                     /\ target \notin SeqToSet(Nominators[who].targets)
             THEN "PhragmenBogusNomination"
             ELSE IF is_validator /\ target # who THEN "PhragmenBogusSelfVote"
             ELSE check_assignments(assignments, i + 1)

\* sp_phragmen::assignment_ratio_to_staked and build_support_map: the total
\* backing of each winner, and the number of edges to a non-winner.
build_support_map(winners, assignments) ==
    LET edges(v) == {k \in 1..Len(assignments) : assignments[k].target = v}
    IN  [supports |->
            [v \in SeqToSet(winners) |->
                SumOver(edges(v),
                        [k \in 1..Len(assignments) |->
                            slashable_balance_of(assignments[k].who)])],
         num_error |->
            Cardinality({k \in 1..Len(assignments) :
                            assignments[k].target \notin SeqToSet(winners)})]

\* The minimal support evaluate_support starts from (the largest value of
\* the type), above every support of the model.
no_support == 4 * MaxBalance

\* sp_phragmen::evaluate_support
evaluate_support(supports) ==
    LET winners == DOMAIN supports
        min_support ==
            IF winners = {} THEN no_support
            ELSE supports[CHOOSE v \in winners :
                            \A w \in winners : supports[v] <= supports[w]]
    IN  <<min_support,
          SumOver(winners, supports),
          SumOver(winners, [v \in winners |-> supports[v] * supports[v]])>>

\* Module::collect_exposure on the support map of a submitted solution.
collect_exposure_of(winners, assignments) ==
    LET elected == SortedSeq(SeqToSet(winners))
        exposure(v) ==
            LET voters == SelectSeq(assignments,
                                    LAMBDA a : a.target = v)
                backers == SelectSeq(voters, LAMBDA a : a.who # v)
                selfs == SelectSeq(voters, LAMBDA a : a.who = v)
                others == [k \in 1..Len(backers) |->
                             [who |-> backers[k].who,
                              value |-> slashable_balance_of(backers[k].who)]]
                own == Len(selfs) * slashable_balance_of(v)
            IN  [total |-> own + SumValues(others), own |-> own,
                 others |-> others]
    IN  [i \in 1..Len(elected) |-> <<elected[i], exposure(elected[i])>>]

\* The winners of a solution as accounts; None when an index is outside the
\* snapshot.
winners_of(winners, snapshot_validators) ==
    IF \E i \in 1..Len(winners) : get(snapshot_validators, winners[i]) = None
    THEN None
    ELSE Some([i \in 1..Len(winners) |->
                 Unwrap(get(snapshot_validators, winners[i]))])

\* The result of Module::check_and_replace_solution.
check_and_replace_solution_result(winners, votes1, claimed_score) ==
    IF early_submission THEN "PhragmenEarlySubmission"
    ELSE IF weak_submission(claimed_score) THEN "PhragmenWeakSubmission"
    ELSE IF SnapshotValidators = None THEN "SnapshotUnavailable"
    ELSE LET snapshot_validators == Unwrap(SnapshotValidators)
             desired_winners == Min(ValidatorCount, Len(snapshot_validators))
             stashes == winners_of(winners, snapshot_validators)
         IN  IF Len(winners) # desired_winners THEN "PhragmenBogusWinnerCount"
             ELSE IF stashes = None THEN "PhragmenBogusWinner"
             ELSE IF SnapshotNominators = None THEN "SnapshotUnavailable"
             ELSE LET assignments ==
                          into_assignment(votes1, Unwrap(SnapshotNominators),
                                          snapshot_validators)
                  IN  IF assignments = None THEN "PhragmenBogusCompact"
                      ELSE IF check_assignments(Unwrap(assignments), 1) # "Ok"
                      THEN check_assignments(Unwrap(assignments), 1)
                      ELSE LET built == build_support_map(Unwrap(stashes),
                                                          Unwrap(assignments))
                           IN  IF built.num_error # 0 THEN "PhragmenBogusEdge"
                               ELSE IF evaluate_support(built.supports)
                                       # claimed_score
                               THEN "PhragmenBogusScore"
                               ELSE "Ok"

\* Module::check_and_replace_solution, called by `call` with `compute`.
check_and_replace_solution(call, winners, votes1, compute, claimed_score) ==
    LET result == check_and_replace_solution_result(winners, votes1,
                                                    claimed_score)
        stashes == Unwrap(winners_of(winners, Unwrap(SnapshotValidators)))
        assignments == Unwrap(into_assignment(votes1,
                                              Unwrap(SnapshotNominators),
                                              Unwrap(SnapshotValidators)))
    IN  /\ last_call' = <<call, result>>
        /\ IF result = "Ok"
           THEN /\ QueuedElected' =
                      Some([elected_stashes |-> stashes,
                            exposures |-> collect_exposure_of(stashes,
                                                              assignments),
                            compute |-> compute])
                /\ QueuedScore' = Some(claimed_score)
           ELSE UNCHANGED <<QueuedElected, QueuedScore>>
        /\ UNCHANGED <<SnapshotValidators, SnapshotNominators,
                       EraElectionStatus>>
        /\ UNCHANGED <<configVars, stakerVars, currencyVars, eraVars,
                       eraInfoVars, slashVars, driverVars>>

\* fn submit_election_solution
submit_election_solution(winners, votes1, score) ==
    check_and_replace_solution("submit_election_solution", winners, votes1,
                               "Signed", score)

\* fn submit_election_solution_unsigned; the validator index and the
\* signature are checked before dispatch.
submit_election_solution_unsigned(winners, votes1, score) ==
    check_and_replace_solution("submit_election_solution_unsigned", winners,
                               votes1, "Authority", score)

\* ------------------------------------------------------------- genesis

\* The state the genesis build leaves: every staker of config.stakers is
\* bonded with RewardDestination::Staked and validates or nominates; the
\* session module has not planned a session yet.
genesis_lookahead(stakers, balance, history_depth, validator_count,
                  minimum_validator_count, force_era, sessions_per_era,
                  election_lookahead) ==
    LET of(stash) == CHOOSE k \in 1..Len(stakers) : stakers[k].stash = stash
        stashes == {stakers[k].stash : k \in 1..Len(stakers)}
        by(controller) ==
            CHOOSE k \in 1..Len(stakers) : stakers[k].controller = controller
    IN  /\ HistoryDepth = history_depth
        /\ ValidatorCount = validator_count
        /\ MinimumValidatorCount = minimum_validator_count
        /\ ForceEra = force_era
        /\ SessionsPerEra = sessions_per_era
        /\ ElectionLookahead = election_lookahead
        /\ Bonded = [stash \in stashes |-> stakers[of(stash)].controller]
        /\ Ledger = [controller \in {stakers[k].controller : k \in 1..Len(stakers)}
                        |-> [stash |-> stakers[by(controller)].stash,
                             total |-> stakers[by(controller)].balance,
                             active |-> stakers[by(controller)].balance,
                             unlocking |-> <<>>,
                             last_reward |-> None]]
        /\ Payee = [stash \in stashes |-> "Staked"]
        /\ Validators = [stash \in {x \in stashes :
                                      stakers[of(x)].status = "Validator"}
                            |-> [commission |-> 0]]
        /\ Nominators = [stash \in {x \in stashes :
                                      stakers[of(x)].status = "Nominator"}
                            |-> [targets |-> stakers[of(stash)].targets,
                                 submitted_in |-> 0,
                                 suppressed |-> FALSE]]
        /\ free_balance = [a \in Accounts |-> balance]
        /\ locks = [a \in Accounts |->
                      IF a \in stashes THEN Some(stakers[of(a)].balance)
                      ELSE None]
        /\ CurrentEra = None
        /\ ActiveEra = None
        /\ ErasStartSessionIndex = EmptyMap
        /\ BondedEras = <<>>
        /\ IsCurrentSessionFinal = FALSE
        /\ ErasStakers = EmptyMap
        /\ ErasStakersClipped = EmptyMap
        /\ ErasValidatorPrefs = EmptyMap
        /\ ErasValidatorReward = EmptyMap
        /\ ErasRewardPoints = EmptyMap
        /\ ErasTotalStake = EmptyMap
        /\ SnapshotValidators = None
        /\ SnapshotNominators = None
        /\ QueuedElected = None
        /\ QueuedScore = None
        /\ EraElectionStatus = "Closed"
        /\ UnappliedSlashes = EmptyMap
        /\ EarliestUnappliedSlash = None
        /\ session_index = 0
        /\ phase = "new"
        /\ last_call = <<"genesis", "Ok">>
        /\ applied = [id \in 1..MaxOffences |-> <<>>]
        /\ cancelled = {}
        /\ offences = <<>>
        /\ paid = EmptyMap

\* The genesis build of a runtime with a lookahead of one block.
genesis_runtime(stakers, balance, history_depth, validator_count,
                minimum_validator_count, force_era, sessions_per_era) ==
    genesis_lookahead(stakers, balance, history_depth, validator_count,
                      minimum_validator_count, force_era, sessions_per_era,
                      OneBlockLookahead)

\* The genesis build of a runtime with two sessions in an era.
genesis_forcing(stakers, balance, history_depth, validator_count,
                minimum_validator_count, force_era) ==
    genesis_runtime(stakers, balance, history_depth, validator_count,
                    minimum_validator_count, force_era, TwoSessionsPerEra)

\* The genesis build with the default of config.force_era.
genesis(stakers, balance, history_depth, validator_count,
        minimum_validator_count) ==
    genesis_forcing(stakers, balance, history_depth, validator_count,
                    minimum_validator_count, "NotForcing")

\* The calls of the session module, in its order.
session(last) ==
    \/ \E i \in 0..(last + 1) : new_session(i)
    \/ \E i \in 0..last : start_session(i)
    \/ \E i \in 0..(last - 1), total_payout \in Payouts :
          end_session(i, total_payout)

\* Blocks run between two rotations of the session module.
in_block == phase = "end"

\* ------------------------------------------------- the bonding ledger

\* Amounts the ledger calls are made with.
Values == 1..3

InitLedger == genesis(<<>>, 3, 2, 1, 0)

\* One stash, account 1 with controller 2, under every ledger operation.
NextLedger ==
    \/ session(LedgerSessions)
    \/ in_block /\ \E value \in Values : bond(1, 2, value, "Staked")
    \/ in_block /\ \E max_additional \in {1} : bond_extra(1, max_additional)
    \/ in_block /\ \E value \in Values : unbond(2, value)
    \/ in_block /\ \E value \in Values : rebond(2, value)
    \/ in_block /\ withdraw_unbonded(2)
    \/ in_block /\ make_payout(1, 1)
    \/ in_block /\ \E value \in {1, 3} : do_slash(1, value)

SpecLedger == InitLedger /\ [][NextLedger]_vars

\* The same stash under the ledger calls and the root call force_unstake.
NextDelay ==
    \/ NextLedger
    \/ in_block /\ force_unstake(1)

SpecDelay == InitLedger /\ [][NextDelay]_vars


\* --------------------------------------------- stashes and controllers

InitBonded == genesis(<<>>, 2, 2, 1, 0)

\* Two stashes, accounts 1 and 2, and every account as a controller.
NextBonded ==
    \/ session(LedgerSessions)
    \/ in_block /\ \E stash \in {1, 2}, controller \in Accounts :
          bond(stash, controller, 2, "Staked")
    \/ in_block /\ \E controller \in Accounts : unbond(controller, 2)
    \/ in_block /\ \E controller \in Accounts : withdraw_unbonded(controller)
    \/ in_block /\ \E stash \in {1, 2}, controller \in Accounts :
          set_controller(stash, controller)
    \/ in_block /\ \E stash \in {1, 2} : force_unstake(stash)
    \/ in_block /\ \E stash \in {1, 2} : reap_stash(stash)
    \/ in_block /\ \E stash \in {1, 2} : do_slash(stash, 2)

SpecBonded == InitBonded /\ [][NextBonded]_vars


\* --------------------------------------------------- the era engine

\* Most reward points an era collects in the model.
MaxPoints == 1

\* Validators 1 and 2 and the nominator 3 of validator 1, each its own
\* controller.
GenesisStakers ==
    <<[stash |-> 1, controller |-> 1, balance |-> 3, status |-> "Validator",
       targets |-> <<>>],
      [stash |-> 2, controller |-> 2, balance |-> 2, status |-> "Validator",
       targets |-> <<>>],
      [stash |-> 3, controller |-> 3, balance |-> 2, status |-> "Nominator",
       targets |-> <<1>>]>>

\* History depth 2, two validators wanted and two needed.
InitEra == genesis(GenesisStakers, 3, 2, 2, 2)

points_of_active_era ==
    IF IsSome(ActiveEra) /\ Unwrap(ActiveEra).index \in DOMAIN ErasRewardPoints
    THEN ErasRewardPoints[Unwrap(ActiveEra).index].total ELSE 0

NextEra ==
    \/ session(EraSessions)
    \/ in_block /\ \E remaining \in 0..1 : on_initialize(remaining)
    \/ in_block /\ on_finalize
    \/ in_block /\ points_of_active_era < MaxPoints /\ reward_by_ids(<<<<1, 1>>>>)
    \/ in_block /\ chill(2)
    \/ in_block /\ validate(2, [commission |-> 0])
    \/ in_block /\ \E new_history_depth \in 0..MaxHistoryDepth :
          set_history_depth(new_history_depth)
    \/ in_block /\ force_no_eras
    \/ in_block /\ force_new_era
    \/ in_block /\ force_new_era_always

SpecEra == InitEra /\ [][NextEra]_vars

\* ------------------------------------------------------- the payouts

\* Last session the session module starts in the runs of the payouts.
PayoutSessions == 4

\* Last era a payout is asked for.
MaxPayoutEra == 2

\* The lists of (validator, nominator_index) payout_nominator is called
\* with, up to one entry more than MAX_NOMINATIONS.
PayoutLists ==
    UNION {[1..n -> {<<1, 0>>, <<2, 0>>}] : n \in 0..(MAX_NOMINATIONS + 1)}

\* Validators 1 and 2 and the nominator 3 claim their rewards while the
\* eras advance and collect points; the nominator leaves and bonds again,
\* and governance changes the history depth.
NextPayout ==
    \/ session(PayoutSessions)
    \/ in_block /\ on_finalize
    \/ in_block /\ points_of_active_era < MaxPoints /\ reward_by_ids(<<<<2, 1>>>>)
    \/ in_block /\ \E who \in {2, 3}, era \in 0..MaxPayoutEra :
          payout_validator(who, era)
    \/ in_block /\ \E era \in 0..MaxPayoutEra, validators \in PayoutLists :
          payout_nominator(3, era, validators)
    \/ in_block /\ unbond(3, 3)
    \/ in_block /\ withdraw_unbonded(3)
    \/ in_block /\ bond(3, 3, 2, "Staked")
    \/ in_block /\ \E new_history_depth \in 0..MaxHistoryDepth :
          set_history_depth(new_history_depth)

SpecPayout == InitEra /\ [][NextPayout]_vars

\* ------------------------------------------------ the election window

\* Validators 1 and 2 and the nominator 3, each bonding its whole balance.
GateStakers ==
    <<[stash |-> 1, controller |-> 1, balance |-> 3, status |-> "Validator",
       targets |-> <<>>],
      [stash |-> 2, controller |-> 2, balance |-> 3, status |-> "Validator",
       targets |-> <<>>],
      [stash |-> 3, controller |-> 3, balance |-> 3, status |-> "Nominator",
       targets |-> <<1>>]>>

InitGate == genesis(GateStakers, 3, 2, 2, 1)

\* The dispatchable calls on the stakers, with the election window opening
\* in the last session of an era.
NextGate ==
    \/ session(GateSessions)
    \/ in_block /\ on_initialize(1)
    \/ in_block /\ unbond(3, 3)
    \/ in_block /\ withdraw_unbonded(3)
    \/ in_block /\ bond(3, 3, 3, "Staked")
    \/ in_block /\ nominate(3, <<2>>)
    \/ in_block /\ validate(2, [commission |-> 0])
    \/ in_block /\ chill(2)
    \/ in_block /\ set_payee(3, "Stash")
    \/ in_block /\ \E stash \in {2, 3}, controller \in {2, 3} :
          set_controller(stash, controller)
    \/ in_block /\ force_unstake(3)
    \/ in_block /\ reap_stash(2)
    \/ in_block /\ is_closed /\ do_slash(2, 3)

SpecGate == InitGate /\ [][NextGate]_vars

\* ------------------------------------- the window with submissions

\* Last session the session module starts in the runs with submissions.
ElectionSessions == 3
\* The winner lists of the submissions: indices into SnapshotValidators,
\* index 2 lying outside it.
WinnerLists == {<<0>>, <<0, 1>>, <<0, 2>>}

\* The votes1 lists of the submissions, pairs <<index into
\* SnapshotNominators, index into SnapshotValidators>>: self votes and
\* nominations, a vote for a validator that is not nominated, a self vote
\* for another validator, and a voter outside the snapshot.
VoteLists ==
    {<<>>, <<<<1, 0>>>>, <<<<2, 1>>>>, <<<<1, 0>>, <<2, 1>>>>,
     <<<<0, 0>>, <<1, 0>>>>, <<<<0, 1>>>>, <<<<1, 1>>>>, <<<<3, 0>>>>}

\* The score a solution evaluates to against the snapshots, <<0, 0, 0>>
\* when it does not decode.
score_of(winners, votes1) ==
    IF SnapshotValidators = None \/ SnapshotNominators = None THEN <<0, 0, 0>>
    ELSE LET stashes == winners_of(winners, Unwrap(SnapshotValidators))
             assignments == into_assignment(votes1, Unwrap(SnapshotNominators),
                                            Unwrap(SnapshotValidators))
         IN  IF stashes = None \/ assignments = None THEN <<0, 0, 0>>
             ELSE evaluate_support(
                     build_support_map(Unwrap(stashes),
                                       Unwrap(assignments)).supports)

\* The scores a submitter claims: the true one, the queued one, and a
\* constant.
ClaimedScores(winners, votes1) ==
    {score_of(winners, votes1), <<0, 0, 0>>}
    \cup (IF IsSome(QueuedScore) THEN {Unwrap(QueuedScore)} ELSE {})

\* Two validators wanted and two needed.
InitElection == genesis(GenesisStakers, 3, 2, 2, 2)

\* The session module, the window, the submissions, and a validator leaving
\* and coming back.
NextElection ==
    \/ session(ElectionSessions)
    \/ in_block /\ \E remaining \in 0..1 : on_initialize(remaining)
    \/ in_block /\ \E winners \in WinnerLists, votes1 \in VoteLists :
          \E score \in ClaimedScores(winners, votes1) :
             submit_election_solution(winners, votes1, score)
    \/ in_block /\ \E winners \in WinnerLists, votes1 \in VoteLists :
          \E score \in ClaimedScores(winners, votes1) :
             submit_election_solution_unsigned(winners, votes1, score)
    \/ in_block /\ chill(2)
    \/ in_block /\ validate(2, [commission |-> 0])

SpecElection == InitElection /\ [][NextElection]_vars

\* The window under the forcing modes.  A window opens only while the
\* session module still has a session to plan, and the solutions submitted
\* are the ones with no voter.
NextWindow ==
    \/ session(ElectionSessions)
    \/ in_block /\ session_index <= ElectionSessions + 1 /\ on_initialize(1)
    \/ in_block /\ \E winners \in WinnerLists :
          submit_election_solution(winners, <<>>, score_of(winners, <<>>))
    \/ in_block /\ chill(2)
    \/ in_block /\ validate(2, [commission |-> 0])
    \/ in_block /\ force_no_eras
    \/ in_block /\ force_new_era
    \/ in_block /\ force_new_era_always

\* Whether the session module has a call left to make in a run of `last`
\* sessions: the guards of new_session, start_session and end_session.
session_enabled(last) ==
    \/ phase = "new" /\ session_index <= last + 1
    \/ phase = "start0"
    \/ phase = "start" /\ session_index - 1 <= last
    \/ phase = "end" /\ session_index - 2 \in 0..(last - 1)

\* A call of the session module, as its own state shows it.
session_rotates(last) ==
    /\ session_enabled(last)
    /\ \E i \in 0..(last + 2), p \in {"new", "start0", "start", "end"} :
          /\ session_index' = i
          /\ phase' = p

\* The session module rotates the sessions on its schedule: while it has a
\* call left, the call is made.
SpecWindow ==
    /\ InitElection
    /\ [][NextWindow]_vars
    /\ WF_driverVars(session_rotates(ElectionSessions))

\* --------------------------------------------------- the forcing modes

\* Last session the session module starts in the runs of the forcing modes.
ForceSessions == 4

Forcings == {"NotForcing", "ForceNew", "ForceNone", "ForceAlways"}

\* Any forcing mode in the genesis configuration.
InitForce ==
    \E force_era \in Forcings :
       genesis_forcing(GenesisStakers, 3, 2, 2, 2, force_era)

\* The session module, the forcing calls, governance changing the history
\* depth, and a validator leaving and coming back.
NextForce ==
    \/ session(ForceSessions)
    \/ in_block /\ force_no_eras
    \/ in_block /\ force_new_era
    \/ in_block /\ force_new_era_always
    \/ in_block /\ \E new_history_depth \in 0..MaxHistoryDepth :
          set_history_depth(new_history_depth)
    \/ in_block /\ chill(2)
    \/ in_block /\ validate(2, [commission |-> 0])

SpecForce == InitForce /\ [][NextForce]_vars

\* ------------------------------------------------ the session rotation

\* Last session the session module starts in the runs of the rotation.
RotationSessions == 5
\* Most sessions per era of the runtimes of the runs.
MaxSessionsPerEra == 3

\* Runtimes with one to MaxSessionsPerEra sessions in an era, not forcing.
InitRotation ==
    \E sessions_per_era \in 1..MaxSessionsPerEra :
       genesis_runtime(GenesisStakers, 3, 2, 2, 2, "NotForcing",
                       sessions_per_era)

\* The session module, the election window, and a validator leaving and
\* coming back.
NextRotation ==
    \/ session(RotationSessions)
    \/ in_block /\ on_initialize(1)
    \/ in_block /\ chill(2)
    \/ in_block /\ validate(2, [commission |-> 0])

SpecRotation == InitRotation /\ [][NextRotation]_vars

\* ------------------------------------------------ the offence reports

\* Last session the session module starts in the runs of the reports.
ReportSessions == 3

InitReport == genesis(GenesisStakers, 3, 2, 2, 1)

\* Offences against the validators, reported with the election window
\* closed and open.
NextReport ==
    \/ session(ReportSessions)
    \/ in_block /\ on_initialize(1)
    \/ in_block /\ \E stash \in {1, 2}, slash_fraction \in Fractions,
                      slash_session \in {0, session_index - 2} :
          on_offence(stash, slash_fraction, slash_session)

SpecReport == InitReport /\ [][NextReport]_vars

\* ------------------------------------------------ the promotion of eras

\* Last session the session module starts in the runs of the promotion.
PromotionSessions == 3

\* Runtimes of one and two sessions per era, with every history depth of
\* the genesis configuration.
InitPromotion ==
    \E history_depth \in 0..MaxHistoryDepth,
       sessions_per_era \in 1..TwoSessionsPerEra :
       genesis_runtime(GenesisStakers, 3, history_depth, 2, 2, "NotForcing",
                       sessions_per_era)

\* The session module and the governance calls on the eras.
NextPromotion ==
    \/ session(PromotionSessions)
    \/ in_block /\ \E new_history_depth \in 0..MaxHistoryDepth :
          set_history_depth(new_history_depth)
    \/ in_block /\ force_no_eras
    \/ in_block /\ force_new_era
    \/ in_block /\ force_new_era_always
    \/ in_block /\ chill(2)

\* The session module makes every call of its schedule.
SpecPromotion ==
    /\ InitPromotion
    /\ [][NextPromotion]_vars
    /\ WF_driverVars(session_rotates(PromotionSessions))

\* ------------------------------------------------ the deferred slashes

\* The index lists cancel_deferred_slash is called with.
IndexLists ==
    UNION {[1..n -> 0..(MaxOffences - 1)] : n \in 0..MaxIndices}

InitSlash == genesis(GenesisStakers, 3, 2, 2, 1)

\* Offences against the validators, cancellations, and the session module
\* advancing the eras.
NextSlash ==
    \/ session(MaxSession)
    \/ in_block /\ \E stash \in {1, 2}, slash_fraction \in Fractions,
                      slash_session \in {0, session_index - 2} :
          on_offence(stash, slash_fraction, slash_session)
    \/ in_block /\ \E era \in (DOMAIN UnappliedSlashes) \cup {0},
                      slash_indices \in IndexLists :
          cancel_deferred_slash(era, slash_indices)

SpecSlash == InitSlash /\ [][NextSlash]_vars

\* ------------------------------------------------------ the exposures

\* Last session the session module starts in the runs of the exposures.
ExposureSessions == 3

\* The validator 1 with the nominators 2 and 3, the smaller stake first.
ExposureStakers ==
    <<[stash |-> 1, controller |-> 1, balance |-> 2, status |-> "Validator",
       targets |-> <<>>],
      [stash |-> 2, controller |-> 2, balance |-> 2, status |-> "Nominator",
       targets |-> <<1>>],
      [stash |-> 3, controller |-> 3, balance |-> 3, status |-> "Nominator",
       targets |-> <<1>>]>>

InitExposure == genesis(ExposureStakers, 3, 2, 1, 1)

\* The solutions submitted: every voter of the snapshot backing the only
\* validator, with and without the validator's own vote.
ExposureVotes ==
    {<<<<0, 0>>, <<1, 0>>, <<2, 0>>>>, <<<<0, 0>>, <<1, 0>>>>}

\* Eras elected on chain and from submitted solutions, while the nominators
\* change their stakes and come and go.
NextExposure ==
    \/ session(ExposureSessions)
    \/ in_block /\ on_initialize(1)
    \/ in_block /\ \E votes1 \in ExposureVotes :
          submit_election_solution(<<0>>, votes1, score_of(<<0>>, votes1))
    \/ in_block /\ bond_extra(2, 1)
    \/ in_block /\ \E controller \in {2, 3} : chill(controller)
    \/ in_block /\ \E controller \in {2, 3} : nominate(controller, <<1>>)

SpecExposure == InitExposure /\ [][NextExposure]_vars

\* ------------------------------------------- the reward destinations

\* Amounts a payout is made of.
PayoutAmounts == 1..2

\* The stash 1 with the controller 2 under every reward destination, paid
\* while it bonds, unbonds and is slashed.
NextPayee ==
    \/ session(LedgerSessions)
    \/ in_block /\ \E value \in {2, 3}, dest \in Payees :
          bond(1, 2, value, dest)
    \/ in_block /\ \E dest \in Payees : set_payee(2, dest)
    \/ in_block /\ unbond(2, 1)
    \/ in_block /\ withdraw_unbonded(2)
    \/ in_block /\ \E amount \in PayoutAmounts : make_payout(1, amount)
    \/ in_block /\ \E value \in {1, 3} : do_slash(1, value)

SpecPayee == InitLedger /\ [][NextPayee]_vars

\* ------------------------------------------- the calls that return errors

\* Last session the session module starts in the runs of the failing calls.
DispatchSessions == 1

\* A dispatchable call whose tests all stand before its first write to
\* storage: it returns its error with nothing written, or runs to its end.
dispatched(call, result, Handler) ==
    IF result = "Ok" THEN Handler
    ELSE /\ LockStakingStatus(call) = "Valid"
         /\ last_call' = <<call, result>>
         /\ UNCHANGED staking_state

\* cancel_deferred_slash writing the queue back after every removal.
cancel_deferred_slash_storage_in_place(era, r) ==
    Insert(UnappliedSlashes, era, r.unapplied)

\* UnappliedSlashes when cancel_deferred_slash returns: the removals are made
\* in a copy of the queue, which the last statement inserts.
cancel_deferred_slash_storage(era, r) ==
    IF r.result = "Ok" THEN Insert(UnappliedSlashes, era, r.unapplied)
    ELSE UnappliedSlashes

\* cancel_deferred_slash with its returns from inside the loop.
cancel_deferred_slash_dispatched(era, slash_indices) ==
    LET r == cancel_deferred_slash_result(era, slash_indices)
    IN  IF r.result = "Ok" THEN cancel_deferred_slash(era, slash_indices)
        ELSE /\ LockStakingStatus("cancel_deferred_slash") = "Valid"
             /\ last_call' = <<"cancel_deferred_slash", r.result>>
             /\ UnappliedSlashes' = cancel_deferred_slash_storage(era, r)
             /\ UNCHANGED <<EarliestUnappliedSlash, applied, cancelled,
                            offences, paid>>
             /\ UNCHANGED <<configVars, stakerVars, currencyVars, eraVars,
                            eraInfoVars, electionVars, driverVars>>

InitDispatch == genesis(GenesisStakers, 3, 2, 2, 1)

\* The nominator 3 and the validator 1 making every call, with arguments
\* the calls take and arguments they refuse.
NextDispatch ==
    \/ session(DispatchSessions)
    \/ in_block /\ on_offence(1, 50, 0)
    \/ in_block /\ \E value \in {0, 2} :
          dispatched("bond", bond_result(3, 3, value),
                     bond(3, 3, value, "Staked"))
    \/ in_block /\ dispatched("bond_extra", bond_extra_result(3),
                              bond_extra(3, 1))
    \/ in_block /\ dispatched("unbond", unbond_result(3), unbond(3, 2))
    \/ in_block /\ dispatched("withdraw_unbonded", withdraw_unbonded_result(3),
                              withdraw_unbonded(3))
    \/ in_block /\ dispatched("rebond", rebond_result(3), rebond(3, 2))
    \/ in_block /\ dispatched("validate", controller_result(3),
                              validate(3, [commission |-> 0]))
    \/ in_block /\ \E targets \in {<<>>, <<1>>} :
          dispatched("nominate", nominate_result(3, targets),
                     nominate(3, targets))
    \/ in_block /\ dispatched("chill", controller_result(3), chill(3))
    \/ in_block /\ dispatched("set_payee", controller_result(3),
                              set_payee(3, "Stash"))
    \/ in_block /\ dispatched("set_controller", set_controller_result(3, 2),
                              set_controller(3, 2))
    \/ in_block /\ dispatched("payout_validator",
                              do_payout_validator_result(1, 0),
                              payout_validator(1, 0))
    \/ in_block /\ dispatched("payout_nominator",
                              do_payout_nominator_result(3, 0, <<<<1, 0>>>>),
                              payout_nominator(3, 0, <<<<1, 0>>>>))
    \/ in_block /\ dispatched("reap_stash", reap_stash_result(3),
                              reap_stash(3))
    \/ in_block /\ \E slash_indices \in {<<0>>, <<0, 1>>} :
          cancel_deferred_slash_dispatched(0, slash_indices)
    \/ in_block /\ submit_election_solution(<<0>>, <<>>,
                                             score_of(<<0>>, <<>>))

SpecDispatch == InitDispatch /\ [][NextDispatch]_vars

\* ============================================================== claims

\* C1: every stored ledger has total = active + the sum of its unlocking
\* chunks, and no more than MAX_UNLOCKING_CHUNKS chunks, after any sequence
\* of bond, bond_extra, unbond, rebond, withdraw_unbonded, slash and payout.
C1_LedgerTotal ==
    \A controller \in DOMAIN Ledger :
        LET l == Ledger[controller]
        IN  /\ l.total = l.active + SumValues(l.unlocking)
            /\ Len(l.unlocking) <= MAX_UNLOCKING_CHUNKS

\* A ledger with every chunk in use has just been slashed and keeps funds.
C1_Witness ==
    /\ last_call = <<"do_slash", "Ok">>
    /\ \E controller \in DOMAIN Ledger :
          /\ Len(Ledger[controller].unlocking) = MAX_UNLOCKING_CHUNKS
          /\ Ledger[controller].total > 0

\* C2: Bonded and Ledger are mutual inverses: Bonded[s] = c exactly when
\* Ledger[c] exists with stash s.
C2_BondedInverse ==
    /\ \A stash \in DOMAIN Bonded :
          /\ Bonded[stash] \in DOMAIN Ledger
          /\ Ledger[Bonded[stash]].stash = stash
    /\ \A controller \in DOMAIN Ledger :
          /\ Ledger[controller].stash \in DOMAIN Bonded
          /\ Bonded[Ledger[controller].stash] = controller

\* Two stashes are bonded and one has just changed its controller.
C2_Witness ==
    /\ last_call = <<"set_controller", "Ok">>
    /\ Cardinality(DOMAIN Bonded) = 2
    /\ Cardinality(DOMAIN Ledger) = 2

\* C3: whenever both eras are set, active_era.index <= current_era and
\* active_era.index > current_era - history_depth, whatever the session
\* module and governance (set_history_depth, force_*) do.
C3_ActiveEraInHistory ==
    IsSome(ActiveEra) /\ IsSome(CurrentEra) =>
        /\ Unwrap(ActiveEra).index <= Unwrap(CurrentEra)
        /\ Unwrap(ActiveEra).index > Unwrap(CurrentEra) - HistoryDepth

\* Whether any of the six maps of era information has an entry of era e.
has_era_information(e) ==
    \/ \E k \in DOMAIN ErasStakers : k[1] = e
    \/ \E k \in DOMAIN ErasStakersClipped : k[1] = e
    \/ \E k \in DOMAIN ErasValidatorPrefs : k[1] = e
    \/ e \in DOMAIN ErasValidatorReward
    \/ e \in DOMAIN ErasRewardPoints
    \/ e \in DOMAIN ErasTotalStake

\* C4: every era of [current_era - history_depth, current_era] has its
\* ErasStartSessionIndex, and no strictly older era has an entry of
\* exposures, clipped exposures, prefs, reward, points or total stake.
C4_HistoryWindow ==
    IsSome(CurrentEra) =>
        \A e \in 0..Unwrap(CurrentEra) :
            IF e >= Unwrap(CurrentEra) - HistoryDepth
            THEN e \in DOMAIN ErasStartSessionIndex
            ELSE ~has_era_information(e)

\* C5: a new_session that plans an era while the election has no result
\* leaves current_era and ErasStartSessionIndex as they were.
C5_FailedElectionKeepsEra ==
    [][(/\ phase = "new"
        /\ plans_new_era(session_index)
        /\ new_era_result = "None")
       => (/\ CurrentEra' = CurrentEra
           /\ ErasStartSessionIndex' = ErasStartSessionIndex)]_vars

\* C6: while the election window is open no call that passes the gate
\* changes Validators, Nominators, Ledger or Bonded.
C6_OpenWindowFreezesStakers ==
    [][(is_open /\ in_block)
       => UNCHANGED <<Validators, Nominators, Ledger, Bonded>>]_vars

\* The offences that gave a slash, by slash id.
slashes_reported == {id \in 1..Len(offences) : offences[id].slashed}

reported_in(id) == Unwrap(offences[id].active_era)

\* Whether the slash `id` sits in the queue of era e.
queued_under(id, e) ==
    \E k \in 1..Len(unapplied_slashes(e)) : unapplied_slashes(e)[k].id = id

active_era_index == IF IsSome(ActiveEra) THEN Unwrap(ActiveEra).index ELSE -1

\* C7 as stated: a slash reported in active era e that is not cancelled is
\* queued under UnappliedSlashes[e] until start_era of era e + d, which
\* applies it.
C7_AppliedAtDeferEra ==
    \A id \in slashes_reported \ cancelled :
        IF active_era_index < reported_in(id) + SlashDeferDuration
        THEN queued_under(id, reported_in(id)) /\ applied[id] = <<>>
        ELSE applied[id] = <<reported_in(id) + SlashDeferDuration>>

\* C7 amended: a slash reported in active era e that is not cancelled is
\* queued under UnappliedSlashes[e] until start_era of era e + d + 1, which
\* applies it: not before and not later.
C7_AppliedAfterDeferEra ==
    \A id \in slashes_reported \ cancelled :
        IF active_era_index < reported_in(id) + SlashDeferDuration + 1
        THEN queued_under(id, reported_in(id)) /\ applied[id] = <<>>
        ELSE applied[id] = <<reported_in(id) + SlashDeferDuration + 1>>

\* A slash reported in era 0 has been applied by start_era.
C7_Witness ==
    /\ last_call = <<"start_era", "Ok">>
    /\ \E id \in slashes_reported :
          reported_in(id) = 0 /\ applied[id] # <<>>

\* The ids of the slashes queued under era e.
queued_ids(e) ==
    {unapplied_slashes(e)[k].id : k \in 1..Len(unapplied_slashes(e))}

\* C8, in states: no slash is handed to apply_slash twice, a cancelled
\* slash never, an applied slash is in no queue any more, and a slash that
\* is not cancelled has been applied once the active era is past its era
\* by more than slash_defer_duration (so it is applied if eras advance).
C8_AppliedOnce ==
    /\ \A id \in 1..MaxOffences : Len(applied[id]) <= 1
    /\ \A id \in cancelled : applied[id] = <<>>
    /\ \A id \in 1..MaxOffences, e \in 0..MaxSession :
          applied[id] # <<>> => ~queued_under(id, e)
    /\ \A id \in slashes_reported \ cancelled :
          active_era_index > reported_in(id) + SlashDeferDuration
             => applied[id] # <<>>

\* C8, in steps: slashes are applied by start_era only, and start_era(a)
\* applies and empties exactly the queues of the eras e < a - d, leaving
\* the other queues as they are.
C8_DrainedAtStartEra ==
    /\ applied' # applied => last_call' = <<"start_era", "Ok">>
    /\ last_call' = <<"start_era", "Ok">> /\ ActiveEra' # ActiveEra =>
          \A e \in 0..MaxSession :
              LET left == IF e \in DOMAIN UnappliedSlashes'
                          THEN UnappliedSlashes'[e] ELSE <<>>
              IN  IF e < Unwrap(ActiveEra').index - SlashDeferDuration
                  THEN /\ left = <<>>
                       /\ \A id \in queued_ids(e) :
                             applied'[id] = <<Unwrap(ActiveEra').index>>
                  ELSE left = unapplied_slashes(e)

\* C8: deferred slashes are drained at start_era only, start_era(a) taking
\* exactly the queues of eras e < a - slash_defer_duration; every queued
\* slash that is not cancelled is applied exactly once, and has been once
\* the eras have advanced past its delay; a cancelled one never.
C8_DeferredDrain == [](C8_AppliedOnce) /\ [][C8_DrainedAtStartEra]_vars

\* start_era has just applied one slash while another, reported later,
\* stays queued, and a third party has been cancelled or not.
C8_Witness ==
    /\ last_call = <<"start_era", "Ok">>
    /\ \E id \in slashes_reported, other \in slashes_reported :
          /\ applied[id] # <<>>
          /\ applied[other] = <<>>
          /\ \E e \in DOMAIN UnappliedSlashes : queued_under(other, e)

\* Whether the list of indices names some index twice.
has_duplicate(slash_indices) ==
    \E i, j \in 1..Len(slash_indices) :
        i # j /\ slash_indices[i] = slash_indices[j]

\* C9: cancel_deferred_slash with an index list that names the same index
\* twice fails (with DuplicateIndex, says the claim) and leaves
\* UnappliedSlashes[era] unchanged.
C9_DuplicateIndexFails ==
    \A era \in 0..MaxSession, slash_indices \in IndexLists :
        has_duplicate(slash_indices) =>
            cancel_deferred_slash_result(era, slash_indices).result # "Ok"

\* What unbond(v) then rebond(v) leave of the ledger l.
unbond_then_rebond(l, v) ==
    ledger_rebond(unbond_ledger(l, v, CurrentEra), v)

\* C10 as stated: on any stored ledger with a free chunk and for any value
\* v, unbond(v) then rebond(v) restores active and the unlocking list, the
\* total staying the same throughout.
C10_RebondRestoresAnyValue ==
    \A controller \in DOMAIN Ledger, v \in Values :
        LET l == Ledger[controller]
        IN  Len(l.unlocking) < MAX_UNLOCKING_CHUNKS =>
              /\ unbond_then_rebond(l, v).active = l.active
              /\ unbond_then_rebond(l, v).unlocking = l.unlocking
              /\ unbond_ledger(l, v, CurrentEra).total = l.total
              /\ unbond_then_rebond(l, v).total = l.total

\* C10 amended: the same for a value v of at most the active balance that
\* leaves either nothing or at least the minimum balance active.
C10_RebondRestores ==
    \A controller \in DOMAIN Ledger, v \in Values :
        LET l == Ledger[controller]
        IN  /\ Len(l.unlocking) < MAX_UNLOCKING_CHUNKS
            /\ v <= l.active
            /\ (l.active - v = 0 \/ l.active - v >= minimum_balance)
            => /\ unbond_then_rebond(l, v).active = l.active
               /\ unbond_then_rebond(l, v).unlocking = l.unlocking
               /\ unbond_ledger(l, v, CurrentEra).total = l.total
               /\ unbond_then_rebond(l, v).total = l.total

\* A rebond has just run on a ledger that keeps an older chunk and enough
\* active balance to unbond part of it again.
C10_Witness ==
    /\ last_call = <<"rebond", "Ok">>
    /\ \E controller \in DOMAIN Ledger :
          /\ Len(Ledger[controller].unlocking) = 1
          /\ Ledger[controller].active > minimum_balance

\* C11: no dust: every stored ledger has active = 0 or active >=
\* minimum_balance, after any sequence of bond, bond_extra, unbond, rebond,
\* slash and Staked payouts.
C11_NoDust ==
    \A controller \in DOMAIN Ledger :
        \/ Ledger[controller].active = 0
        \/ Ledger[controller].active >= minimum_balance

\* The chunks of the ledger l that are still locked at current_era (every
\* chunk while there is no current era).
locked_chunks(l, current_era) ==
    SelectSeq(l.unlocking,
              LAMBDA chunk : current_era = None \/ chunk.era > Unwrap(current_era))

\* Whether the sequence p is a prefix of the sequence q.
is_prefix(p, q) == Len(p) <= Len(q) /\ SubSeq(q, 1, Len(p)) = p

\* unbond at current_era = e appends one chunk whose era is
\* e + bonding_duration.
C12_UnbondChunk ==
    last_call' = <<"unbond", "Ok">> /\ Ledger' # Ledger /\ IsSome(CurrentEra) =>
        \A controller \in DOMAIN Ledger :
            Ledger'[controller] # Ledger[controller] =>
                LET l == Ledger[controller]
                    m == Ledger'[controller]
                IN  /\ Len(m.unlocking) = Len(l.unlocking) + 1
                    /\ SubSeq(m.unlocking, 1, Len(l.unlocking)) = l.unlocking
                    /\ m.unlocking[Len(m.unlocking)].era =
                          Unwrap(CurrentEra) + BondingDuration
                    /\ m.unlocking[Len(m.unlocking)].value = l.active - m.active
                    /\ m.total = l.total

\* A step of a call outside `removers` keeps every chunk that is still
\* locked, counted in the total of the ledger and in the lock of the stash.
chunks_stay_locked(removers) ==
    last_call'[1] \notin removers =>
        \A stash \in DOMAIN Bonded :
            LET l == Ledger[Bonded[stash]]
                kept == locked_chunks(l, CurrentEra)
            IN  kept # <<>> =>
                  /\ stash \in DOMAIN Bonded'
                  /\ Bonded'[stash] \in DOMAIN Ledger'
                  /\ LET m == Ledger'[Bonded'[stash]]
                     IN  /\ is_prefix(kept, locked_chunks(m, CurrentEra))
                         /\ m.total >= m.active + SumValues(m.unlocking)
                         /\ locks'[stash] = Some(m.total)

\* withdraw_unbonded removes exactly the chunks with era <= current_era,
\* lowers the total by their sum and leaves active and the other chunks as
\* they were; the ledger it deletes had no other chunk and nothing active.
C12_Withdraw ==
    last_call' = <<"withdraw_unbonded", "Ok">> =>
        \A controller \in DOMAIN Ledger :
            LET l == Ledger[controller]
                kept == locked_chunks(l, CurrentEra)
            IN  IF controller \in DOMAIN Ledger'
                THEN LET m == Ledger'[controller]
                     IN  /\ m.unlocking = kept
                         /\ m.total = l.total - (SumValues(l.unlocking)
                                                   - SumValues(kept))
                         /\ m.active = l.active
                         /\ locks'[l.stash] = Some(m.total)
                ELSE kept = <<>> /\ l.active = 0

session_step ==
    last_call'[1] \in {"new_session", "start_session", "start_era",
                       "end_session"}

\* Whether nothing of the stash is left in the staking storage.
reaped(stash, controller) ==
    /\ stash \notin DOMAIN Bonded
    /\ controller \notin DOMAIN Ledger
    /\ stash \notin DOMAIN Payee
    /\ stash \notin DOMAIN Validators
    /\ stash \notin DOMAIN Nominators
    /\ locks[stash] = None

\* unbond(v) on a ledger bonded with v and nothing unlocking leaves nothing
\* active and one chunk of v that consolidate_unlocked removes, with the
\* whole total, bonding_duration eras later and not one era before.
C13_UnbondAll ==
    \A controller \in DOMAIN Ledger :
        LET l == Ledger[controller]
            e == UnwrapOr(CurrentEra, 0)
            u == unbond_ledger(l, l.active, CurrentEra)
        IN  l.unlocking = <<>> /\ l.active = l.total /\ l.active > 0 =>
              /\ u.active = 0
              /\ u.total = l.total
              /\ u.unlocking = <<[value |-> l.total, era |-> e + BondingDuration]>>
              /\ consolidate_unlocked(u, e + BondingDuration).unlocking = <<>>
              /\ consolidate_unlocked(u, e + BondingDuration).total = 0
              /\ consolidate_unlocked(u, e + BondingDuration - 1) = u

\* The eras advance without touching a ledger, a pairing or a lock, and
\* withdraw_unbonded on a ledger with nothing active whose chunks have all
\* reached their era reaps the stash and removes its lock.
C13_WithdrawReaps ==
    /\ session_step /\ applied' = applied =>
          UNCHANGED <<Bonded, Ledger, Payee, locks>>
    /\ last_call' = <<"withdraw_unbonded", "Ok">> =>
          \A controller \in DOMAIN Ledger :
              LET l == Ledger[controller]
              IN  /\ (controller \in DOMAIN Ledger' => Ledger'[controller] # l)
                  /\ l.active = 0
                  /\ locked_chunks(l, CurrentEra) = <<>>
                  => /\ l.stash \notin DOMAIN Bonded'
                     /\ controller \notin DOMAIN Ledger'
                     /\ l.stash \notin DOMAIN Payee'
                     /\ l.stash \notin DOMAIN Validators'
                     /\ l.stash \notin DOMAIN Nominators'
                     /\ locks'[l.stash] = None

\* C13: for a stash bonded with value v, unbond(v), then current_era
\* advancing by bonding_duration eras, then withdraw_unbonded leaves the
\* stash with no staking lock and no Bonded, Ledger, Payee, Validators or
\* Nominators entry, no slash occurring in between.
C13_BondUnbondRoundTrip == [](C13_UnbondAll) /\ [][C13_WithdrawReaps]_vars

\* withdraw_unbonded has just reaped the nominator 3, bonded at genesis,
\* after the era advanced.
C13_Witness ==
    /\ last_call = <<"withdraw_unbonded", "Ok">>
    /\ CurrentEra = Some(BondingDuration)
    /\ reaped(3, 3)

\* Whether a <= b for two values of last_reward, None being the least.
last_reward_le(a, b) == a = None \/ (b # None /\ Unwrap(a) <= Unwrap(b))

\* The number of successful payouts logged for (stash, era).
times_paid(log, stash, era) ==
    IF <<stash, era>> \in DOMAIN log THEN log[<<stash, era>>] ELSE 0

\* A payout by `who` for an era <= last_reward fails with InvalidEraToReward,
\* the nominator's with the lists of validators of `lists`; no (stash, era)
\* has been paid twice.
payout_fails_again(lists) ==
    /\ \A who \in DOMAIN Ledger, era \in 0..MaxPayoutEra :
          already_paid_before(Ledger[who], era)
              \/ Ledger[who].last_reward = Some(era) =>
            /\ do_payout_validator_result(who, era) = "InvalidEraToReward"
            /\ \A validators \in lists :
                  do_payout_nominator_result(who, era, validators)
                      = "InvalidEraToReward"
    /\ \A key \in DOMAIN paid : paid[key] <= 1

\* A successful payout for era e is the first of its (stash, era) and sets
\* last_reward = e, above what it was; no step lowers the last_reward of a
\* ledger.
C14_PayoutStep ==
    /\ last_call'[1] \in {"payout_validator", "payout_nominator"} =>
          \E who \in DOMAIN Ledger, era \in 0..MaxPayoutEra :
              /\ times_paid(paid', Ledger[who].stash, era)
                    = times_paid(paid, Ledger[who].stash, era) + 1
              /\ times_paid(paid, Ledger[who].stash, era) = 0
              /\ Ledger'[who].last_reward = Some(era)
              /\ Ledger[who].last_reward # Some(era)
              /\ last_reward_le(Ledger[who].last_reward, Some(era))
              /\ \A other \in DOMAIN Ledger \ {who} :
                    Ledger'[other] = Ledger[other]
    /\ \A who \in DOMAIN Ledger \cap DOMAIN Ledger' :
          last_reward_le(Ledger[who].last_reward, Ledger'[who].last_reward)

\* C14 as stated: a successful payout_validator or payout_nominator for era
\* e sets last_reward = e; any later payout by the same controller for an
\* era <= last_reward fails with InvalidEraToReward; last_reward is strictly
\* increasing and no (stash, era) is paid twice.
C14_PayoutIdempotenceStated ==
    [](payout_fails_again(PayoutLists)) /\ [][C14_PayoutStep]_vars

\* C14 amended: the same, the later payout_nominator being called with at
\* most MAX_NOMINATIONS validators (a longer list fails with
\* InvalidNumberOfNominations whatever the era).
C14_PayoutIdempotence ==
    [](payout_fails_again({v \in PayoutLists : Len(v) <= MAX_NOMINATIONS}))
        /\ [][C14_PayoutStep]_vars

\* The nominator 3 has just been paid for era 1 after it was paid for era 0.
C14_Witness ==
    /\ last_call = <<"payout_nominator", "Ok">>
    /\ times_paid(paid, 3, 0) = 1
    /\ times_paid(paid, 3, 1) = 1
    /\ Ledger[3].last_reward = Some(1)

\* Whether the era has ended and lies within history_depth eras of the
\* current era.
ended_in_history(era) ==
    /\ IsSome(ActiveEra) /\ IsSome(CurrentEra)
    /\ era \in DOMAIN ErasValidatorReward
    /\ era <= Unwrap(ActiveEra).index
    /\ era <= Unwrap(CurrentEra)
    /\ era + HistoryDepth >= Unwrap(CurrentEra)

\* C15: a payout for era e succeeds only if e has ended (end_session
\* recorded its reward, so e <= active_era) and e is within history_depth
\* eras of current_era; for an era without a recorded reward (unfinished,
\* future or pruned) the payout fails with InvalidEraToReward.  Stated of
\* the states in which a block runs, where the payouts are dispatched.
C15_PayoutOnlyInHistory ==
    in_block =>
    \A who \in DOMAIN Ledger, era \in 0..MaxPayoutEra :
        /\ do_payout_validator_result(who, era) = "Ok" => ended_in_history(era)
        /\ \A validators \in {v \in PayoutLists : Len(v) <= MAX_NOMINATIONS} :
              /\ do_payout_nominator_result(who, era, validators) = "Ok"
                    => ended_in_history(era)
              /\ era \notin DOMAIN ErasValidatorReward =>
                    /\ do_payout_validator_result(who, era)
                          = "InvalidEraToReward"
                    /\ do_payout_nominator_result(who, era, validators)
                          = "InvalidEraToReward"

\* The submissions of the runs, with every score their senders claim.
Submissions ==
    {<<winners, votes1, score>> :
        winners \in WinnerLists, votes1 \in VoteLists,
        score \in {<<0, 0, 0>>} \cup
                  (IF IsSome(QueuedScore) THEN {Unwrap(QueuedScore)} ELSE {})}
    \cup {<<winners, votes1, score_of(winners, votes1)>> :
             winners \in WinnerLists, votes1 \in VoteLists}

submission_calls ==
    {"submit_election_solution", "submit_election_solution_unsigned"}

\* A submission whose claimed score is not strictly better than the queued
\* score fails with PhragmenWeakSubmission.
weak_submissions_rejected ==
    \A s \in Submissions :
       IsSome(QueuedScore) /\ ~is_score_better(Unwrap(QueuedScore), s[3])
       => check_and_replace_solution_result(s[1], s[2], s[3])
          = "PhragmenWeakSubmission"

\* A weak submission leaves the queued solution and score alone, and a
\* queued score is only replaced by a strictly better one.
C16_SubmissionStep ==
    /\ (last_call'[1] \in submission_calls
         /\ last_call'[2] = "PhragmenWeakSubmission")
       => UNCHANGED <<QueuedElected, QueuedScore>>
    /\ (IsSome(QueuedScore) /\ IsSome(QueuedScore')
         /\ QueuedScore' # QueuedScore)
       => is_score_better(Unwrap(QueuedScore), Unwrap(QueuedScore'))

\* C16: a submitted election solution whose claimed score is not strictly
\* better than QueuedScore is rejected with PhragmenWeakSubmission and
\* QueuedElected and QueuedScore are unchanged; the queued score of an open
\* window only ever strictly improves.
C16_ScoreStrictImprovement ==
    [](weak_submissions_rejected) /\ [][C16_SubmissionStep]_vars

\* A submission has just been rejected as weak against the queued score of
\* the open window.
C16_Witness ==
    /\ is_open
    /\ IsSome(QueuedScore)
    /\ last_call = <<"submit_election_solution", "PhragmenWeakSubmission">>

\* C17: a submission while the election status is Closed fails with
\* PhragmenEarlySubmission, and in every reachable state QueuedElected is
\* present if and only if QueuedScore is present, and only if the election
\* status is Open.
C17_QueuedOnlyInWindow ==
    /\ \A s \in Submissions :
          is_closed => check_and_replace_solution_result(s[1], s[2], s[3])
                       = "PhragmenEarlySubmission"
    /\ IsSome(QueuedElected) <=> IsSome(QueuedScore)
    /\ IsSome(QueuedElected) => is_open

\* An authority's solution has just been queued in the open window.
C17_Witness ==
    /\ is_open
    /\ IsSome(QueuedElected)
    /\ IsSome(QueuedScore)
    /\ last_call = <<"submit_election_solution_unsigned", "Ok">>

\* C18: in every reachable state SnapshotValidators and SnapshotNominators
\* hold a value if and only if EraElectionStatus is Open.
C18_SnapshotLifecycle ==
    /\ IsSome(SnapshotValidators) <=> is_open
    /\ IsSome(SnapshotNominators) <=> is_open

\* The window and both snapshots have outlived an era rollover whose
\* election failed: the new era has begun and the status is still Open.
C18_Witness ==
    /\ is_open
    /\ IsSome(SnapshotValidators)
    /\ IsSome(SnapshotNominators)
    /\ in_block
    /\ ~IsCurrentSessionFinal

\* C19: after every step that increments current_era the election status
\* is Closed and the snapshots, QueuedElected and QueuedScore are erased,
\* whether or not the election produced a validator set.
C19_NewEraClosesWindow ==
    [][CurrentEra' # CurrentEra
       => /\ is_closed'
          /\ SnapshotValidators' = None
          /\ SnapshotNominators' = None
          /\ QueuedElected' = None
          /\ QueuedScore' = None]_vars

\* C20: whenever the election status becomes Open it eventually becomes
\* Closed again, the session module calling new_session on its schedule,
\* under every forcing mode.
C20_WindowCloses == is_open ~> is_closed

\* A step that is a call of new_session.
new_session_step == phase = "new" /\ session_index' = session_index + 1

\* Under ForceNone a call of new_session leaves current_era as it is and
\* returns none.
C21_ForceNoneStated ==
    [][(new_session_step /\ ForceEra = "ForceNone")
       => /\ CurrentEra' = CurrentEra
          /\ last_call' = <<"new_session", "None">>]_vars

\* C21: while ForceEra = ForceNone no call of new_session made after the
\* initial era has been set increments current_era, and new_session returns
\* none.
C21_ForceNoneKeepsEra ==
    [][(new_session_step /\ ForceEra = "ForceNone" /\ IsSome(CurrentEra))
       => /\ CurrentEra' = CurrentEra
          /\ last_call' = <<"new_session", "None">>]_vars

\* new_session has just returned none under ForceNone for a session at
\* which the era was due.
C21_Witness ==
    /\ ForceEra = "ForceNone"
    /\ last_call = <<"new_session", "None">>
    /\ IsSome(CurrentEra)
    /\ Unwrap(CurrentEra) \in DOMAIN ErasStartSessionIndex
    /\ session_index - 1 - ErasStartSessionIndex[Unwrap(CurrentEra)]
          >= SessionsPerEra

\* Under ForceNew a call of new_session plans a new era and leaves
\* NotForcing.
C22_ForceNewStated ==
    [][(new_session_step /\ ForceEra = "ForceNew")
       => /\ CurrentEra' # CurrentEra
          /\ ForceEra' = "NotForcing"]_vars

\* C22: once ForceEra is ForceNew and the initial era has been set, the
\* next new_session plans a new era, starting at the session it plans,
\* regardless of the era length, and after that call ForceEra is
\* NotForcing.
C22_ForceNewOneShot ==
    [][(new_session_step /\ ForceEra = "ForceNew" /\ IsSome(CurrentEra))
       => /\ CurrentEra' = Some(Unwrap(CurrentEra) + 1)
          /\ ErasStartSessionIndex'[Unwrap(CurrentEra) + 1] = session_index
          /\ ForceEra' = "NotForcing"]_vars

\* new_session has just planned an era before it was due and left
\* NotForcing.
C22_Witness ==
    /\ ForceEra = "NotForcing"
    /\ last_call[1] = "new_session"
    /\ IsSome(CurrentEra)
    /\ Unwrap(CurrentEra) >= 1
    /\ {Unwrap(CurrentEra) - 1, Unwrap(CurrentEra)}
          \subseteq DOMAIN ErasStartSessionIndex
    /\ ErasStartSessionIndex[Unwrap(CurrentEra)] = session_index - 1
    /\ ErasStartSessionIndex[Unwrap(CurrentEra)]
          - ErasStartSessionIndex[Unwrap(CurrentEra) - 1] < SessionsPerEra

\* Under NotForcing, with the initial era set, new_session(i) plans a new
\* era if and only if i - ErasStartSessionIndex[current_era] >=
\* sessions_per_era.
C23_PlansWhenDue ==
    (new_session_step /\ ForceEra = "NotForcing" /\ IsSome(CurrentEra))
    => (CurrentEra' # CurrentEra
        <=> session_index - ErasStartSessionIndex[Unwrap(CurrentEra)]
              >= SessionsPerEra)

\* Successive eras start exactly sessions_per_era sessions apart.
C23_ErasApart ==
    \A e \in DOMAIN ErasStartSessionIndex :
       e + 1 \in DOMAIN ErasStartSessionIndex
       => ErasStartSessionIndex[e + 1] - ErasStartSessionIndex[e]
          = SessionsPerEra

\* IsCurrentSessionFinal is true exactly while the session planned last is
\* the last session of the current era.
C23_FinalFlag ==
    IsCurrentSessionFinal
    <=> /\ IsSome(CurrentEra)
        /\ session_index - 1
             = ErasStartSessionIndex[Unwrap(CurrentEra)] + SessionsPerEra - 1

planned(e) ==
    /\ CurrentEra = Some(e)
    /\ e \in DOMAIN ErasStartSessionIndex
    /\ ErasStartSessionIndex[e] <= PromotionSessions

\* Each value taken by current_era is later taken by active_era.index.
C24_PlannedBecomesActive ==
    \A e \in 0..(PromotionSessions + 1) :
       planned(e) ~> (active_era_index = e)

\* A call of start_session, and the session it starts.
start_session_step == phase \in {"start0", "start"} /\ phase' # phase

started_session == IF phase = "start0" THEN 0 ELSE session_index - 1

\* active_era.index grows by exactly one per promotion, and the next era is
\* promoted at the first start_session(i) with ErasStartSessionIndex[e] <= i.
C24_PromotionStep ==
    /\ ActiveEra' # ActiveEra
       => /\ start_session_step
          /\ active_era_index' = active_era_index + 1
          /\ ErasStartSessionIndex[active_era_index + 1] <= started_session
    /\ (/\ start_session_step
        /\ active_era_index + 1 \in DOMAIN ErasStartSessionIndex
        /\ ErasStartSessionIndex[active_era_index + 1] <= started_session)
       => active_era_index' = active_era_index + 1

\* C24: every planned era eventually becomes the active era, one promotion
\* at a time, at the first start_session(i) with
\* ErasStartSessionIndex[e] <= i, also after governance calls.
C24_EveryEraPromoted ==
    C24_PlannedBecomesActive /\ [][C24_PromotionStep]_vars

\* C25: on_offence called while the election window is Open returns Err
\* and changes no state (no slash computed, applied or queued,
\* EarliestUnappliedSlash untouched); with the window Closed it returns Ok.
C25_OffenceRefusedWhileOpen ==
    [][last_call'[1] = "on_offence"
       => IF is_open
          THEN last_call'[2] = "Err" /\ UNCHANGED staking_state
          ELSE last_call'[2] = "Ok"]_vars

\* A report has been refused with the window open, after an earlier report
\* was taken.
C25_Witness ==
    /\ last_call = <<"on_offence", "Err">>
    /\ is_open
    /\ Len(offences) > 0

\* The calls of the dispatch table that return a result.
Dispatchables ==
    {"bond", "bond_extra", "unbond", "withdraw_unbonded", "rebond",
     "validate", "nominate", "chill", "set_payee", "set_controller",
     "payout_validator", "payout_nominator", "reap_stash",
     "cancel_deferred_slash", "submit_election_solution",
     "submit_election_solution_unsigned"}

largest_of(clipped, others) ==
    /\ \E pick \in SUBSET (1..Len(others)) :
          /\ Cardinality(pick) = Len(clipped)
          /\ {others[k] : k \in pick} = SeqToSet(clipped)
          /\ \A k \in pick, j \in (1..Len(others)) \ pick :
                others[k].value >= others[j].value

\* C27: for every era and elected validator written by new_era, the full
\* exposure satisfies total = own + sum of others' values, and the clipped
\* exposure has at most MaxNominatorRewardedPerValidator entries in others,
\* which are the largest-by-value entries of the full exposure's others.
C27_Exposures ==
    /\ DOMAIN ErasStakersClipped = DOMAIN ErasStakers
    /\ \A key \in DOMAIN ErasStakers :
          LET exposure == ErasStakers[key]
              clipped == ErasStakersClipped[key]
          IN  /\ exposure.total = exposure.own + SumValues(exposure.others)
              /\ Len(clipped.others) <= MaxNominatorRewardedPerValidator
              /\ Len(clipped.others) =
                    Min(Len(exposure.others), MaxNominatorRewardedPerValidator)
              /\ largest_of(clipped.others, exposure.others)

\* An exposure of a later era has been clipped: the validator has two
\* nominators of different stakes, the larger one second.
C27_Witness ==
    \E key \in DOMAIN ErasStakers :
       /\ key[1] >= 1
       /\ Len(ErasStakers[key].others) = 2
       /\ ErasStakers[key].others[1].value < ErasStakers[key].others[2].value
       /\ Len(ErasStakersClipped[key].others) = 1

\* C28: BondedEras always holds exactly the eras
\* max(0, active_era - bonding_duration) .. active_era, so its length is at
\* most bonding_duration + 1, and it is strictly increasing in both the era
\* and the session component.
C28_BondedEras ==
    /\ ActiveEra = None => BondedEras = <<>>
    /\ IsSome(ActiveEra) =>
          LET active_era == Unwrap(ActiveEra).index
              first_kept == SatSub(active_era, BondingDuration)
          IN  /\ Len(BondedEras) = active_era - first_kept + 1
              /\ \A k \in 1..Len(BondedEras) :
                    BondedEras[k][1] = first_kept + k - 1
    /\ Len(BondedEras) <= BondingDuration + 1
    /\ \A k \in 1..(Len(BondedEras) - 1) :
          /\ BondedEras[k][1] < BondedEras[k + 1][1]
          /\ BondedEras[k][2] < BondedEras[k + 1][2]

\* An era has been pruned from BondedEras and the list is full.
C28_Witness ==
    /\ IsSome(ActiveEra)
    /\ Unwrap(ActiveEra).index > BondingDuration
    /\ Len(BondedEras) = BondingDuration + 1
    /\ last_call = <<"start_era", "Ok">>

\* The staking lock of every account is the total of the ledger of its
\* controller, and an account that is not the stash of a ledger has none.
C29_LockIsTotal ==
    \A who \in Accounts :
       locks[who] = IF who \in DOMAIN Bonded /\ Bonded[who] \in DOMAIN Ledger
                    THEN Some(Ledger[Bonded[who]].total)
                    ELSE None

\* No operation changes a ledger's total without rewriting the lock.
C29_TotalRewritesLock ==
    \A controller \in (DOMAIN Ledger) \cap (DOMAIN Ledger') :
       (/\ Ledger'[controller].stash = Ledger[controller].stash
        /\ Ledger'[controller].total # Ledger[controller].total)
       => /\ locks'[Ledger[controller].stash]
               = Some(Ledger'[controller].total)
          /\ locks'[Ledger[controller].stash]
               # locks[Ledger[controller].stash]

\* C29: in every reachable state the staking lock on a bonded stash equals
\* its ledger's total, and a stash without a ledger has no staking lock; no
\* operation changes a ledger's total without rewriting the lock.
C29_LockFollowsLedger ==
    []C29_LockIsTotal /\ [][C29_TotalRewritesLock]_vars

\* A payout has raised the total of a ledger that has unlocking chunks.
C29_Witness ==
    /\ last_call = <<"make_payout", "Ok">>
    /\ 2 \in DOMAIN Ledger
    /\ Ledger[2].unlocking # <<>>
    /\ locks[1] = Some(Ledger[2].total)

\* What a payout to the stash 1 with the controller 2 changes.
credited(who) == free_balance'[who] - free_balance[who]

\* C30: with payee Staked, a payout of amount x credits x to the stash and
\* raises ledger.active, ledger.total and the lock each by exactly x, all or
\* none; with payee Stash or Controller the credited account is the stash
\* resp. the controller and the ledger's active, total and unlocking are
\* unchanged.
C30_PayoutByDestination ==
    [][(last_call'[1] = "make_payout" /\ 2 \in DOMAIN Ledger)
       => CASE payee(1) = "Staked" ->
                 /\ Ledger'[2].active = Ledger[2].active + credited(1)
                 /\ Ledger'[2].total = Ledger[2].total + credited(1)
                 /\ locks'[1] = Some(Unwrap(locks[1]) + credited(1))
                 /\ credited(2) = 0
            [] payee(1) = "Stash" ->
                 /\ credited(1) >= 0 /\ credited(2) = 0
                 /\ UNCHANGED <<Ledger, locks>>
            [] payee(1) = "Controller" ->
                 /\ credited(2) >= 0 /\ credited(1) = 0
                 /\ UNCHANGED <<Ledger, locks>>]_vars

\* The same with the stash alive: an account deposit_into_existing accepts.
C30_PayoutToLiveStash ==
    [][(last_call'[1] = "make_payout" /\ 2 \in DOMAIN Ledger
        /\ payee(1) = "Staked" /\ can_deposit(1))
       => /\ credited(1) > 0
          /\ Ledger'[2].active = Ledger[2].active + credited(1)
          /\ Ledger'[2].total = Ledger[2].total + credited(1)
          /\ locks'[1] = Some(Unwrap(locks[1]) + credited(1))]_vars


\* ------------------------------------------- the rewards of validators

\* Last session the session module starts in the runs of the rewards.
RewardSessions == 4

\* Most reward points an era collects in the runs of the rewards.
MaxRewardPoints == 3

\* The era that collects points and is paid in the runs of the rewards.
RewardEra == 1

\* The payouts the runtime computes for an era in the runs of the rewards.
RewardPayouts == {1, 2}

\* The validator 1 backed by the nominator 3, and the validator 2 alone.
RewardStakers ==
    <<[stash |-> 1, controller |-> 1, balance |-> 2, status |-> "Validator",
       targets |-> <<>>],
      [stash |-> 2, controller |-> 2, balance |-> 2, status |-> "Validator",
       targets |-> <<>>],
      [stash |-> 3, controller |-> 3, balance |-> 2, status |-> "Nominator",
       targets |-> <<1>>]>>

InitReward == genesis(RewardStakers, 2, 2, 2, 2)

\* The validators collect points in the era RewardEra, the validator 1
\* changes its commission, and both claim the reward of that era.
NextReward ==
    \/ \E i \in 0..(RewardSessions + 1) : new_session(i)
    \/ \E i \in 0..RewardSessions : start_session(i)
    \/ \E i \in 0..(RewardSessions - 1), total_payout \in RewardPayouts :
          end_session(i, total_payout)
    \/ in_block /\ on_finalize
    \/ in_block /\ \E validator \in {1, 2} :
          /\ IsSome(ActiveEra) /\ Unwrap(ActiveEra).index = RewardEra
          /\ points_of_active_era < MaxRewardPoints
          /\ reward_by_ids(<<<<validator, 1>>>>)
    \/ in_block /\ \E commission \in Fractions :
          validate(1, [commission |-> commission])
    \/ in_block /\ \E who \in {1, 2} : payout_validator(who, RewardEra)

SpecReward == InitReward /\ [][NextReward]_vars

\* What the storage of an era holds for a validator, read entry by entry.
era_points(era) ==
    IF era \in DOMAIN ErasRewardPoints THEN ErasRewardPoints[era].total ELSE 0

points_of(era, stash) ==
    IF /\ era \in DOMAIN ErasRewardPoints
       /\ stash \in DOMAIN ErasRewardPoints[era].individual
    THEN ErasRewardPoints[era].individual[stash] ELSE 0

commission_of(era, stash) ==
    IF <<era, stash>> \in DOMAIN ErasValidatorPrefs
    THEN ErasValidatorPrefs[<<era, stash>>].commission ELSE 0

own_of(era, stash) ==
    IF <<era, stash>> \in DOMAIN ErasStakers
    THEN ErasStakers[<<era, stash>>].own ELSE 0

total_of(era, stash) ==
    IF <<era, stash>> \in DOMAIN ErasStakers
    THEN ErasStakers[<<era, stash>>].total ELSE 0

\* The payout of the formula in the fixed point of the model: every
\* quotient and every product of two parts rounded down to a hundredth.
formula_payout(era, stash) ==
    LET point_share == IF era_points(era) = 0 THEN 0
                       ELSE (Min(points_of(era, stash), era_points(era)) * 100)
                               \div era_points(era)
        own_share == IF total_of(era, stash) = 0 THEN 0
                     ELSE (Min(own_of(era, stash), total_of(era, stash)) * 100)
                             \div total_of(era, stash)
        commission == commission_of(era, stash)
        kept == commission + ((100 - commission) * own_share) \div 100
        part == (point_share * kept) \div 100
    IN  mul_percent(part, ErasValidatorReward[era])

\* C31: payout_validator(who, e) credits the stash of who with
\* era_payout(e) * (points of the stash / total points of e)
\* * (commission + (1 - commission) * own / total), computed in the fixed
\* point with the commission recorded for era e and the exposure of era e.
C31_PayoutFormula ==
    [][\A who \in {1, 2}, era \in {RewardEra} :
          payout_validator(who, era)
          => credited(Ledger[who].stash) = formula_payout(era, Ledger[who].stash)]_vars

\* C31: the credited amount is less than one unit of balance away from the
\* exact value of the formula, and never above the payout of the era.
C31_PayoutNearExact ==
    [][\A who \in {1, 2}, era \in {RewardEra} :
          (payout_validator(who, era) /\ era_points(era) > 0
           /\ total_of(era, Ledger[who].stash) > 0)
          => LET stash == Ledger[who].stash
                 c == commission_of(era, stash)
                 numerator == ErasValidatorReward[era] * points_of(era, stash)
                              * (c * total_of(era, stash)
                                 + (100 - c) * own_of(era, stash))
                 denominator == era_points(era) * 100 * total_of(era, stash)
             IN  /\ credited(stash) * denominator < numerator + denominator
                 /\ numerator < (credited(stash) + 1) * denominator
                 /\ credited(stash) <= ErasValidatorReward[era]]_vars

\* C31: with commission 0 and own = total the payout is
\* era_payout * points / total points.
C31_PayoutOfSoleStaker ==
    [][\A who \in {1, 2}, era \in {RewardEra} :
          (/\ payout_validator(who, era)
           /\ commission_of(era, Ledger[who].stash) = 0
           /\ total_of(era, Ledger[who].stash) > 0
           /\ own_of(era, Ledger[who].stash) = total_of(era, Ledger[who].stash)
           /\ era_points(era) > 0)
          => credited(Ledger[who].stash)
               = mul_percent((points_of(era, Ledger[who].stash) * 100)
                                \div era_points(era),
                             ErasValidatorReward[era])]_vars

MaxElectionLookahead == 2

\* Last session the session module starts in the runs of the lookahead.
LookaheadSessions == 3

\* The blocks that remain before the next session when a block starts.
Remainings == 0..(MaxElectionLookahead + 1)

\* Runtimes with a lookahead of 0 to MaxElectionLookahead blocks.
InitLookahead ==
    \E election_lookahead \in 0..MaxElectionLookahead :
       genesis_lookahead(GenesisStakers, 3, 2, 2, 2, "NotForcing",
                         TwoSessionsPerEra, election_lookahead)

\* Blocks start any number of blocks before the session ends, solutions
\* are submitted, and a validator leaves and comes back.
NextLookahead ==
    \/ session(LookaheadSessions)
    \/ in_block /\ \E remaining \in Remainings : on_initialize(remaining)
    \/ in_block /\ \E winners \in WinnerLists :
          submit_election_solution(winners, <<>>, score_of(winners, <<>>))
    \/ in_block /\ chill(2)
    \/ in_block /\ validate(2, [commission |-> 0])

SpecLookahead == InitLookahead /\ [][NextLookahead]_vars

\* The compute mode of the election new_era would use now, if any.
election_compute ==
    IF try_do_phragmen = None THEN None
    ELSE Some(Unwrap(try_do_phragmen).compute)

\* C32: the election window opens only in on_initialize, and only when the
\* status is Closed, IsCurrentSessionFinal is true, 0 < remaining blocks to
\* the next session <= ElectionLookahead and the snapshot was created.
C32_OpensInOnInitialize ==
    [][(is_open' /\ ~is_open)
       => /\ is_closed /\ IsCurrentSessionFinal
          /\ \E remaining \in 1..ElectionLookahead : on_initialize(remaining)
          /\ SnapshotValidators' = Some(SortedSeq(DOMAIN Validators))
          /\ IsSome(SnapshotNominators')]_vars

\* C32: a block that starts with the status not Closed, the session not
\* final, no block remaining or more than ElectionLookahead blocks
\* remaining leaves the window and the snapshot as they are.
C32_StaysClosedOtherwise ==
    [][\A remaining \in Remainings :
          (/\ on_initialize(remaining)
           /\ \/ ~is_closed
              \/ ~IsCurrentSessionFinal
              \/ remaining = 0
              \/ remaining > ElectionLookahead)
          => UNCHANGED electionVars]_vars

\* C32: with ElectionLookahead = 0 the window never opens, no snapshot is
\* taken and no solution is queued.
C32_NeverOpensWithoutLookahead ==
    [](ElectionLookahead = 0
       => /\ is_closed
          /\ SnapshotValidators = None /\ SnapshotNominators = None
          /\ QueuedElected = None)

\* C32: with ElectionLookahead = 0 every era is elected on chain.
C32_ElectedOnChainWithoutLookahead ==
    [][(ElectionLookahead = 0 /\ CurrentEra' # CurrentEra
        /\ last_call' = <<"new_session", "Some">>)
       => election_compute = Some("OnChain")]_vars

C32_Window ==
    /\ C32_OpensInOnInitialize
    /\ C32_StaysClosedOtherwise
    /\ C32_NeverOpensWithoutLookahead
    /\ C32_ElectedOnChainWithoutLookahead

\* The window was opened two blocks before the end of a final session by a
\* runtime with a lookahead of two blocks.
C32_Witness ==
    /\ ElectionLookahead = 2
    /\ last_call = <<"on_initialize", "Ok">>
    /\ is_open /\ IsCurrentSessionFinal
    /\ IsSome(SnapshotValidators)

\* A runtime without lookahead elected its second era (at a final session,
\* after blocks that started with no block remaining).
C32_WitnessNoLookahead ==
    /\ ElectionLookahead = 0
    /\ last_call = <<"new_session", "Some">>
    /\ CurrentEra = Some(1)
    /\ is_closed


\* ------------------------------------------- the reward points

\* Last session the session module starts in the runs of the points.
PointSessions == 2

\* The points an era holds when the last award to it is made, at most.
MaxEraPoints == 2

\* The lists reward_by_ids is called with: no validator, one, two, and one
\* validator twice.
PointLists ==
    {<<>>, <<<<1, 1>>>>, <<<<1, 1>>, <<2, 1>>>>, <<<<1, 1>>, <<1, 2>>>>}

InitPoints == genesis(GenesisStakers, 3, 2, 2, 2)

\* Points are awarded while the genesis is built and while the eras
\* advance, and governance gives up the history of the eras.
NextPoints ==
    \/ session(PointSessions)
    \/ \E validators_points \in PointLists :
          /\ ActiveEra = None
          /\ last_call[1] # "reward_by_ids"
          /\ reward_by_ids(validators_points)
    \/ in_block /\ \E validators_points \in PointLists :
          /\ points_of_active_era <= MaxEraPoints
          /\ reward_by_ids(validators_points)
    \/ in_block /\ set_history_depth(0)

SpecPoints == InitPoints /\ [][NextPoints]_vars

\* The sum of the points of the validators of an era.
sum_individual(era) ==
    SumOver(DOMAIN ErasRewardPoints[era].individual,
            ErasRewardPoints[era].individual)

RECURSIVE points_listed(_, _)
points_listed(validators_points, validator) ==
    IF validators_points = <<>> THEN 0
    ELSE (IF Head(validators_points)[1] = validator
          THEN Head(validators_points)[2] ELSE 0)
         + points_listed(Tail(validators_points), validator)

\* C33: for every era, ErasRewardPoints[e].total equals the sum of
\* ErasRewardPoints[e].individual.
C33_TotalIsSum ==
    \A era \in DOMAIN ErasRewardPoints :
       ErasRewardPoints[era].total = sum_individual(era)

\* C33: reward_by_ids changes only the entry of the active era, adding to
\* every validator the amounts listed for it (a validator listed twice gets
\* both) and to the total the sum of the list; with no active era it
\* changes nothing.
C33_RewardByIds ==
    [][\A validators_points \in PointLists :
          reward_by_ids(validators_points)
          => IF IsSome(ActiveEra)
             THEN LET era == Unwrap(ActiveEra).index
                  IN  /\ \A e \in DOMAIN ErasRewardPoints \ {era} :
                            /\ e \in DOMAIN ErasRewardPoints'
                            /\ ErasRewardPoints'[e] = ErasRewardPoints[e]
                      /\ DOMAIN ErasRewardPoints'
                            = DOMAIN ErasRewardPoints \cup {era}
                      /\ \A v \in Accounts :
                            points_of(era, v)'
                               = points_of(era, v)
                                 + points_listed(validators_points, v)
                      /\ era_points(era)'
                            = era_points(era)
                              + SumOver(Accounts,
                                   [v \in Accounts |->
                                       points_listed(validators_points, v)])
                      /\ UNCHANGED <<configVars, stakerVars, currencyVars,
                                     eraVars, electionVars, slashVars>>
             ELSE UNCHANGED staking_state]_vars

C33_Points == [](C33_TotalIsSum) /\ C33_RewardByIds

\* Era 1 holds the points of two awards to validator 1 made in one call
\* next to points of validator 2, while era 0 keeps its own.
C33_Witness ==
    /\ last_call = <<"reward_by_ids", "Ok">>
    /\ ActiveEra # None /\ Unwrap(ActiveEra).index = 1
    /\ points_of(1, 1) = 4 /\ points_of(1, 2) = 1 /\ era_points(1) = 5
    /\ era_points(0) > 0

\* reward_by_ids was called with a list of points before any era started.
C33_WitnessNoEra ==
    /\ last_call = <<"reward_by_ids", "Ok">>
    /\ ActiveEra = None


\* ------------------------------------------- the queued solution

\* A step of new_session that makes a new era.
rollover == last_call'[1] = "new_session" /\ CurrentEra' # CurrentEra

\* What new_era returns to the session module: the elected stashes.
new_era_returns ==
    IF try_do_phragmen = None THEN None
    ELSE Some(Unwrap(try_do_phragmen).elected_stashes)

\* The exposures the on-chain election gives in this state, by validator.
on_chain_exposures ==
    LET r == do_phragmen_with_post_processing("OnChain")
    IN  IF r = None THEN EmptyMap
        ELSE [v \in SeqToSet(Unwrap(r).elected_stashes) |->
                 LET i == CHOOSE j \in 1..Len(Unwrap(r).exposures) :
                             Unwrap(r).exposures[j][1] = v
                 IN  Unwrap(r).exposures[i][2]]

\* The exposures stored for an era, by validator.
stored_exposures(era) ==
    [v \in {k[2] : k \in {x \in DOMAIN ErasStakers : x[1] = era}} |->
        ErasStakers[<<era, v>>]]

\* C34: when a solution is queued at the era rollover, new_era takes it and
\* runs no election: the validator set returned and the keys of
\* ErasStakers[current_era] are the queued elected stashes, the exposures
\* stored are the queued ones, ErasTotalStake[current_era] is the sum of
\* their totals, and the compute mode emitted is the queued one.
C34_QueuedIsUsed ==
    [][(rollover /\ IsSome(QueuedElected))
       => LET r == Unwrap(QueuedElected)
              n == Len(r.exposures)
          IN  /\ last_call' = <<"new_session", "Some">>
              /\ new_era_returns = Some(r.elected_stashes)
              /\ election_compute = Some(r.compute)
              /\ {k \in DOMAIN ErasStakers' : k[1] = Unwrap(CurrentEra')}
                    = {<<Unwrap(CurrentEra'), r.exposures[i][1]>> : i \in 1..n}
              /\ SeqToSet(r.elected_stashes)
                    = {r.exposures[i][1] : i \in 1..n}
              /\ \A i \in 1..n :
                    ErasStakers'[<<Unwrap(CurrentEra'), r.exposures[i][1]>>]
                       = r.exposures[i][2]
              /\ ErasTotalStake'[Unwrap(CurrentEra')]
                    = SumOver(1..n, [i \in 1..n |-> r.exposures[i][2].total])
              /\ QueuedElected' = None /\ QueuedScore' = None]_vars

\* C34: the queued compute mode is the one of the last accepted
\* submission: an accepted signed submission queues Signed, an accepted
\* unsigned one Authority, and no other step writes the queue but the
\* rollover that takes it.
C34_ComputeOfLastAccepted ==
    [][/\ last_call' = <<"submit_election_solution", "Ok">>
          => IsSome(QueuedElected')
             /\ Unwrap(QueuedElected').compute = "Signed"
       /\ last_call' = <<"submit_election_solution_unsigned", "Ok">>
          => IsSome(QueuedElected')
             /\ Unwrap(QueuedElected').compute = "Authority"
       /\ QueuedElected' # QueuedElected
          => \/ last_call' = <<"submit_election_solution", "Ok">>
             \/ last_call' = <<"submit_election_solution_unsigned", "Ok">>
             \/ rollover /\ QueuedElected' = None]_vars

C34_Queued == C34_QueuedIsUsed /\ C34_ComputeOfLastAccepted

\* Era 1 was made from a queued solution whose exposures are not the ones
\* the on-chain election gives for the same stakers.
C34_Witness ==
    /\ last_call = <<"new_session", "Some">>
    /\ CurrentEra = Some(1)
    /\ QueuedElected = None
    /\ DOMAIN stored_exposures(1) # {}
    /\ stored_exposures(1) # on_chain_exposures


\* ------------------------------------------- the unlocking chunks

\* Largest stake bonded at the genesis in the runs of the chunks.
MaxStake == 6

\* The values unbonded, rebonded and slashed in the runs of the chunks.
ChunkValues == 0..(MaxStake + 1)

\* The stash 1 with the controller 2 and a stake of the minimum balance to
\* MaxStake, neither validating nor nominating.
InitChunks ==
    \E stake \in minimum_balance..MaxStake :
       genesis(<<[stash |-> 1, controller |-> 2, balance |-> stake,
                  status |-> "Idle", targets |-> <<>>]>>,
               MaxStake, 2, 1, 0)

\* The controller unbonds in parts and rebonds, and the stash is slashed.
NextChunks ==
    \/ \E value \in ChunkValues : unbond(2, value)
    \/ \E value \in ChunkValues :
          dispatched("rebond", rebond_result(2), rebond(2, value))
    \/ \E value \in ChunkValues : do_slash(1, value)

SpecChunks == InitChunks /\ [][NextChunks]_vars

\* Whether the chunks `after` are the chunks `before` less `dropped` of
\* them at the given end, the chunk next to the dropped ones lowered to a
\* value above 0 or kept, and all others as they were.
newest_taken(before, after) ==
    /\ Len(after) <= Len(before)
    /\ \A i \in 1..(Len(after) - 1) : after[i] = before[i]
    /\ Len(after) > 0
       => /\ after[Len(after)].era = before[Len(after)].era
          /\ after[Len(after)].value <= before[Len(after)].value
          /\ after[Len(after)].value > 0

oldest_taken(before, after) ==
    LET dropped == Len(before) - Len(after)
    IN  /\ dropped >= 0
        /\ \A i \in 2..Len(after) : after[i] = before[dropped + i]
        /\ Len(after) > 0
           => /\ after[1].era = before[dropped + 1].era
              /\ after[1].value <= before[dropped + 1].value
              /\ after[1].value > 0

\* C35: rebond(value) fails with NoUnlockChunk when unlocking is empty;
\* otherwise it moves exactly min(value, sum of unlocking values) into
\* active, taking from the newest chunk first: the chunks it consumed are
\* removed, at most one chunk is lowered, the older chunks and total are
\* unchanged.
C35_Rebond ==
    [][\A value \in ChunkValues :
          (2 \in DOMAIN Ledger
           /\ dispatched("rebond", rebond_result(2), rebond(2, value)))
          => IF Ledger[2].unlocking = <<>>
             THEN /\ last_call' = <<"rebond", "NoUnlockChunk">>
                  /\ UNCHANGED staking_state
             ELSE LET moved == Min(value, SumValues(Ledger[2].unlocking))
                  IN  /\ last_call' = <<"rebond", "Ok">>
                      /\ Ledger'[2].active = Ledger[2].active + moved
                      /\ Ledger'[2].total = Ledger[2].total
                      /\ SumValues(Ledger'[2].unlocking)
                            = SumValues(Ledger[2].unlocking) - moved
                      /\ newest_taken(Ledger[2].unlocking,
                                      Ledger'[2].unlocking)]_vars

\* A rebond consumed the newest chunk whole and lowered the older one.
C35_Witness ==
    /\ last_call = <<"rebond", "Ok">>
    /\ 2 \in DOMAIN Ledger
    /\ Ledger[2].unlocking = <<[value |-> 1, era |-> 1]>>
    /\ Ledger[2].active = 5
    /\ Ledger[2].total = 6

\* C36: StakingLedger::slash(amount, minimum_balance) takes from active
\* first and from the chunks only once active is 0, the oldest chunk
\* first; it returns pre_total - post_total, at least min(amount,
\* pre_total) and at most pre_total; every balance it lowers ends at 0 or
\* not below minimum_balance, and the consumed leading chunks are removed.
C36_Slash ==
    \A controller \in DOMAIN Ledger, amount \in ChunkValues :
       LET l == Ledger[controller]
           r == ledger_slash(l, amount, minimum_balance)
       IN  /\ r.ledger.unlocking # l.unlocking => r.ledger.active = 0
           /\ oldest_taken(l.unlocking, r.ledger.unlocking)
           /\ r.slashed = l.total - r.ledger.total
           /\ r.slashed >= Min(amount, l.total)
           /\ r.slashed <= l.total
           /\ r.ledger.active <= l.active
           /\ r.ledger.active # l.active
              => r.ledger.active = 0 \/ r.ledger.active >= minimum_balance
           /\ \A i \in 1..Len(r.ledger.unlocking) :
                 LET before == l.unlocking[Len(l.unlocking)
                                           - Len(r.ledger.unlocking) + i]
                 IN  r.ledger.unlocking[i].value # before.value
                     => r.ledger.unlocking[i].value >= minimum_balance
           /\ r.ledger.total
                 = r.ledger.active + SumValues(r.ledger.unlocking)

\* A slash consumed the oldest chunk and lowered the next one, with nothing
\* left active.
C36_Witness ==
    /\ last_call = <<"do_slash", "Ok">>
    /\ 2 \in DOMAIN Ledger
    /\ Ledger[2].active = 0
    /\ Len(Ledger[2].unlocking) = 1
    /\ Ledger[2].unlocking[1].value = 3
    /\ Ledger[2].total = 3
    /\ free_balance[1] = 3


\* ------------------------------------------- the history depth

\* Last session the session module starts in the runs of the depth.
DepthSessions == 4

\* A runtime whose eras are one session long, with history depth 2.
InitDepth ==
    genesis_runtime(GenesisStakers, 3, MaxHistoryDepth, 2, 2, "NotForcing", 1)

\* Governance sets the history depth before the first era is planned and
\* while the eras advance and collect points and payouts.
NextDepth ==
    \/ session(DepthSessions)
    \/ \E new_history_depth \in 0..MaxHistoryDepth :
          /\ CurrentEra = None
          /\ last_call[1] # "set_history_depth"
          /\ set_history_depth(new_history_depth)
    \/ in_block /\ on_finalize
    \/ in_block /\ points_of_active_era < MaxPoints
                /\ reward_by_ids(<<<<1, 1>>>>)
    \/ in_block /\ \E new_history_depth \in 0..MaxHistoryDepth :
          set_history_depth(new_history_depth)

SpecDepth == InitDepth /\ [][NextDepth]_vars

\* The information the seven maps hold of an era.
information_of(era) ==
    [ErasStakers |-> [k \in {x \in DOMAIN ErasStakers : x[1] = era}
                        |-> ErasStakers[k]],
     ErasStakersClipped |->
        [k \in {x \in DOMAIN ErasStakersClipped : x[1] = era}
            |-> ErasStakersClipped[k]],
     ErasValidatorPrefs |->
        [k \in {x \in DOMAIN ErasValidatorPrefs : x[1] = era}
            |-> ErasValidatorPrefs[k]],
     ErasValidatorReward |->
        IF era \in DOMAIN ErasValidatorReward
        THEN Some(ErasValidatorReward[era]) ELSE None,
     ErasRewardPoints |->
        IF era \in DOMAIN ErasRewardPoints
        THEN Some(ErasRewardPoints[era]) ELSE None,
     ErasTotalStake |->
        IF era \in DOMAIN ErasTotalStake
        THEN Some(ErasTotalStake[era]) ELSE None,
     ErasStartSessionIndex |->
        IF era \in DOMAIN ErasStartSessionIndex
        THEN Some(ErasStartSessionIndex[era]) ELSE None]

no_information ==
    [ErasStakers |-> EmptyMap, ErasStakersClipped |-> EmptyMap,
     ErasValidatorPrefs |-> EmptyMap, ErasValidatorReward |-> None,
     ErasRewardPoints |-> None, ErasTotalStake |-> None,
     ErasStartSessionIndex |-> None]

\* The eras the runs know of.
DepthEras == 0..(DepthSessions + 1)

C37_SetsDepthInAnEra ==
    [][\A n \in 0..MaxHistoryDepth :
          set_history_depth(n)
          => IF IsSome(CurrentEra) THEN HistoryDepth' = n
             ELSE UNCHANGED staking_state]_vars

\* When set_history_depth(n) lowers the depth it clears the information of
\* exactly the eras of [current_era - old_depth, current_era - n) and
\* leaves the information of every other era, those of the new window
\* among them, as it is.
C37_ClearsLeftEras ==
    [][\A n \in 0..MaxHistoryDepth :
          (set_history_depth(n) /\ IsSome(CurrentEra))
          => \A era \in DepthEras :
                IF /\ era >= SatSub(Unwrap(CurrentEra), HistoryDepth)
                   /\ era < SatSub(Unwrap(CurrentEra), n)
                THEN information_of(era)' = no_information
                ELSE information_of(era)' = information_of(era)]_vars

\* The depth was lowered from 2 to 0 in era 3: the eras 1 and 2 lost their
\* information and era 3 keeps its own.
C37_Cleared ==
    /\ last_call = <<"set_history_depth", "Ok">>
    /\ CurrentEra = Some(3)
    /\ HistoryDepth = 0
    /\ information_of(1) = no_information
    /\ information_of(2) = no_information
    /\ information_of(3) # no_information


\* ------------------------------------------- the elected set

\* Last session the session module starts in the runs of the elected set.
ElectedSessions == 3

\* The window opens, solutions are submitted, and stashes are unstaked or
\* change their controller while a solution is queued.
NextElected ==
    \/ session(ElectedSessions)
    \/ in_block /\ on_initialize(1)
    \/ in_block /\ \E winners \in WinnerLists :
          submit_election_solution(winners, <<>>, score_of(winners, <<>>))
    \/ in_block /\ \E stash \in {2, 3} : force_unstake(stash)
    \/ in_block /\ set_controller(2, 3)
    \/ in_block /\ chill(2)
    \/ in_block /\ validate(2, [commission |-> 50])

SpecElected == InitElection /\ [][NextElected]_vars

\* Whether a stash is a validator candidate that is bonded, and the
\* preference recorded for it in the era just made is the registered one.
elected_as_registered(v) ==
    /\ v \in DOMAIN Validators
    /\ v \in DOMAIN Bonded
    /\ Bonded[v] \in DOMAIN Ledger
    /\ ErasValidatorPrefs'[<<Unwrap(CurrentEra'), v>>] = Validators[v]

\* C38: every stash in the validator set new_era returns is, at that
\* moment, a key of Validators that is still bonded, and its
\* ErasValidatorPrefs entry is its registered preference, whatever
\* force_unstake, reap_stash and set_controller did since a queued solution
\* was accepted.
C38_ElectedAreCandidates ==
    [][(rollover /\ IsSome(new_era_returns))
       => \A v \in SeqToSet(Unwrap(new_era_returns)) :
             elected_as_registered(v)]_vars

\* The same for the eras elected on chain.
C38_ElectedOnChainAreCandidates ==
    [][(rollover /\ IsSome(new_era_returns) /\ QueuedElected = None)
       => \A v \in SeqToSet(Unwrap(new_era_returns)) :
             elected_as_registered(v)]_vars

\* An era was elected on chain with a validator that asks for a commission.
C38_ElectedOnChain ==
    /\ last_call = <<"new_session", "Some">>
    /\ CurrentEra = Some(1)
    /\ <<1, 2>> \in DOMAIN ErasValidatorPrefs
    /\ ErasValidatorPrefs[<<1, 2>>].commission = 50


\* ------------------------------------------- the rewards of nominators

\* Last session the session module starts in the runs of these rewards.
NominatorSessions == 2

\* The lists payout_nominator is called with: the entry of the nominator 3
\* in the exposure of validator 1, a validator without nominators, an
\* index past the end, and lists that repeat an entry.
NominatorLists ==
    UNION {[1..n -> {<<1, 0>>, <<2, 0>>, <<1, 1>>}] : n \in 0..MAX_NOMINATIONS}

\* Era 0 collects points of both validators and ends with a payout of 2;
\* the nominator 3 and the validator 2 then call payout_nominator.
NextNominator ==
    \/ \E i \in 0..(NominatorSessions + 1) : new_session(i)
    \/ \E i \in 0..NominatorSessions : start_session(i)
    \/ \E i \in 0..(NominatorSessions - 1) : end_session(i, 2)
    \/ in_block /\ on_finalize
    \/ in_block /\ \E validator \in {1, 2} :
          /\ IsSome(ActiveEra) /\ Unwrap(ActiveEra).index = 0
          /\ points_of_active_era < MaxPoints + 1
          /\ reward_by_ids(<<<<validator, 1>>>>)
    \/ in_block /\ \E who \in {2, 3}, validators \in NominatorLists :
          payout_nominator(who, 0, validators)

SpecNominator == InitReward /\ [][NextNominator]_vars

\* The validators in whose clipped exposure of an era a stash appears.
backed_by(era, stash) ==
    {v \in Accounts :
        /\ <<era, v>> \in DOMAIN ErasStakersClipped
        /\ \E i \in 1..Len(ErasStakersClipped[<<era, v>>].others) :
              ErasStakersClipped[<<era, v>>].others[i].who = stash}

\* The value a stash has in the clipped exposure of a validator.
value_in(era, v, stash) ==
    LET others == ErasStakersClipped[<<era, v>>].others
    IN  others[CHOOSE i \in 1..Len(others) : others[i].who = stash].value

RECURSIVE product_of_totals(_, _)
product_of_totals(era, S) ==
    IF S = {} THEN 1
    ELSE LET v == CHOOSE x \in S : TRUE
         IN  ErasStakersClipped[<<era, v>>].total
             * product_of_totals(era, S \ {v})

\* The sum over the validators v of backed_by(era, stash) of
\* era_payout * points of v / total points * (1 - commission of v)
\* * value / exposure total, as a fraction.
share_numerator(era, stash) ==
    LET S == backed_by(era, stash)
    IN  SumOver(S, [v \in S |->
            ErasValidatorReward[era] * points_of(era, v)
            * (100 - commission_of(era, v)) * value_in(era, v, stash)
            * product_of_totals(era, S \ {v})])

share_denominator(era, stash) ==
    era_points(era) * 100 * product_of_totals(era, backed_by(era, stash))

\* Whether a payout stays less than a unit above the share of the stash.
within_share(amount, era, stash) ==
    IF share_denominator(era, stash) = 0 THEN amount = 0
    ELSE amount * share_denominator(era, stash)
            < share_numerator(era, stash) + share_denominator(era, stash)

no_duplicates(validators) ==
    \A i, j \in 1..Len(validators) :
       validators[i] = validators[j] => i = j

\* C39: the amount one payout_nominator call pays for era e never exceeds
\* the sum, over the distinct validators in whose clipped exposure the
\* caller appears, of era_payout * point share * (1 - commission) * the
\* caller's value / exposure total (rounded to a unit of balance): a pair
\* listed several times pays no more than listed once, and an entry whose
\* index does not point at the caller contributes nothing.
C39_PayoutWithinShare ==
    [][\A who \in {2, 3}, validators \in NominatorLists :
          payout_nominator(who, 0, validators)
          => within_share(credited(Ledger[who].stash), 0,
                          Ledger[who].stash)]_vars

\* The same for the lists that name no pair twice.
C39_PayoutWithinShareOnce ==
    [][\A who \in {2, 3}, validators \in NominatorLists :
          (payout_nominator(who, 0, validators) /\ no_duplicates(validators))
          => within_share(credited(Ledger[who].stash), 0,
                          Ledger[who].stash)]_vars

\* The nominator 3 was paid its share of the points of validator 1.
C39_PaidOnce ==
    /\ last_call = <<"payout_nominator", "Ok">>
    /\ <<3, 0>> \in DOMAIN paid
    /\ free_balance[3] = 3


\* ------------------------------------------- the roles of the stashes

\* Last session the session module starts in the runs of the roles.
RoleSessions == 1

\* The stashes 2 and 3 validate, nominate and chill in turn, change their
\* controllers, unbond, are slashed, reaped and unstaked, and bond again.
NextRoles ==
    \/ session(RoleSessions)
    \/ in_block /\ \E controller \in {2, 3} :
          validate(controller, [commission |-> 0])
    \/ in_block /\ \E controller \in {2, 3} : nominate(controller, <<1>>)
    \/ in_block /\ \E controller \in {2, 3} : chill(controller)
    \/ in_block /\ \E stash \in {2, 3}, controller \in {2, 3} :
          set_controller(stash, controller)
    \/ in_block /\ unbond(3, 3)
    \/ in_block /\ withdraw_unbonded(3)
    \/ in_block /\ bond(3, 3, 3, "Staked")
    \/ in_block /\ do_slash(2, 3)
    \/ in_block /\ reap_stash(2)
    \/ in_block /\ force_unstake(3)

SpecRoles == InitGate /\ [][NextRoles]_vars

\* C40: no stash is in both Validators and Nominators, and every key of
\* Validators or Nominators is a bonded stash with a ledger.
C40_RolesOfBondedStashes ==
    /\ DOMAIN Validators \cap DOMAIN Nominators = {}
    /\ \A stash \in DOMAIN Validators \cup DOMAIN Nominators :
          /\ stash \in DOMAIN Bonded
          /\ Bonded[stash] \in DOMAIN Ledger
          /\ Ledger[Bonded[stash]].stash = stash

\* C40: validate removes the nomination, nominate removes the validator
\* preference, chill removes both, and reaping a stash (reap_stash,
\* force_unstake, the withdraw_unbonded that kills it) removes both.
C40_RoleSteps ==
    [][/\ \A controller \in {2, 3} :
             validate(controller, [commission |-> 0])
             => /\ Ledger[controller].stash \in DOMAIN Validators'
                /\ Ledger[controller].stash \notin DOMAIN Nominators'
       /\ \A controller \in {2, 3} :
             nominate(controller, <<1>>)
             => /\ Ledger[controller].stash \in DOMAIN Nominators'
                /\ Ledger[controller].stash \notin DOMAIN Validators'
       /\ \A controller \in {2, 3} :
             chill(controller)
             => /\ Ledger[controller].stash \notin DOMAIN Nominators'
                /\ Ledger[controller].stash \notin DOMAIN Validators'
       /\ \A stash \in DOMAIN Bonded \ DOMAIN Bonded' :
             /\ stash \notin DOMAIN Nominators'
             /\ stash \notin DOMAIN Validators']_vars

C40_Roles == [](C40_RolesOfBondedStashes) /\ C40_RoleSteps

\* The nominator 3 of the genesis validates and the validator 2 nominates.
C40_Witness ==
    /\ 3 \in DOMAIN Validators
    /\ 2 \in DOMAIN Nominators
    /\ last_call[1] \in {"validate", "nominate"}

\* The stash 2 was slashed to nothing and reaped.
C40_Reaped ==
    /\ last_call = <<"reap_stash", "Ok">>
    /\ 2 \notin DOMAIN Bonded

====
